---- MODULE Spec2Model ----
(***************************************************************************)
(* A model of tt (wtn/tabular_tool), src/src/main.rs: the command line,    *)
(* the lazy transformation pipeline (apply_transformations), the windowed  *)
(* sampler, the lint checks and the statistics report.                     *)
(*                                                                         *)
(* The query engine (Polars) is outside the repository.  Its operations    *)
(* are modelled by what they return on materialised tables:                *)
(*   - a LazyFrame is a source table plus the list of plan nodes the code  *)
(*     appended to it; collecting it runs the nodes in order;              *)
(*   - sort is not stable (maintain_order is left at its default): every   *)
(*     ordering of tied rows is a possible outcome;                        *)
(*   - slice(offset, length) follows the engine's slice_offsets: a         *)
(*     negative offset is added to the height BEFORE clamping, the end is  *)
(*     start + length, and both ends are then clamped to [0, height];      *)
(*   - the row index type IdxSize is 32 bits wide;                         *)
(*   - cols([...]) is a strict selector: naming an absent column is an     *)
(*     error when the plan is resolved.                                    *)
(***************************************************************************)
EXTENDS Integers, Sequences, FiniteSets, TLC

---------------------------------------------------------------------------
(* Bounds of the model and constants of the program                        *)

\* Longest table of the pipeline specifications.
MaxRows == 3

\* Width of IdxSize (u32), main.rs:666.
IdxBits == 32

\* sample_window = (n * 1000).max(100_000).min(row_count), main.rs:563.
WindowFactor == 1000

WindowFloor == 100000

\* null_rows_lf.limit(100), main.rs:530.
NullRowsCap == 100

\* Largest |offset| and limit the slice specification draws (beside 2^32).
MaxSlice == 4

\* Lengths up to which the model of the random draw lists every outcome.
SmallDraw == 3

---------------------------------------------------------------------------
(* Values, rows, tables                                                    *)

Min(a, b) == IF a < b THEN a ELSE b

Max(a, b) == IF a > b THEN a ELSE b

Null == [t |-> "null"]

StrV(s) == [t |-> "str", s |-> s]

IntV(i) == [t |-> "int", i |-> i]

IsNull(v) == v.t = "null"

\* The strings that occur in tables, with their code points.
Ord(s) ==
  CASE s = "A" -> 65 [] s = "B" -> 66 [] s = "C" -> 67
    [] s = "a" -> 97 [] s = "b" -> 98 [] s = "c" -> 99

\* str().to_lowercase()
ToLowercase(s) ==
  CASE s = "A" -> "a" [] s = "B" -> "b" [] s = "C" -> "c" [] OTHER -> s

Range(f) == {f[i] : i \in DOMAIN f}

Names(schema) == [i \in DOMAIN schema |-> schema[i].name]

NameSet(schema) == {schema[i].name : i \in DOMAIN schema}

DType(schema, c) ==
  schema[CHOOSE i \in DOMAIN schema : schema[i].name = c].dtype

\* Option<T>: None is the empty sequence, Some(x) the one-element sequence.
None == <<>>

Some(x) == <<x>>

IsSome(o) == o # <<>>

Unwrap(o) == o[1]

\* A materialised table (DataFrame).  A "range" frame is the compact form of
\* a one-column table whose row j (from 0) holds the integer lo + j: it
\* stands for the large inputs of the sampler.
Frame(schema, rows) == [kind |-> "rows", schema |-> schema, rows |-> rows]

IdSchema == <<[name |-> "id", dtype |-> "int"]>>

RangeFrame(lo, hi) ==
  [kind |-> "range", schema |-> IdSchema, lo |-> lo, hi |-> hi]

\* A PolarsError / anyhow error.
Err(e) == [kind |-> "err", err |-> e]

IsErr(x) == x.kind = "err"

Height(df) == IF df.kind = "range" THEN df.hi - df.lo ELSE Len(df.rows)

Width(df) == Len(df.schema)

\* Row j of df, j counted from 0.
RowAt(df, j) ==
  IF df.kind = "range" THEN [id |-> IntV(df.lo + j)] ELSE df.rows[j + 1]

Rows(df) == [i \in 1..Height(df) |-> RowAt(df, i - 1)]

---------------------------------------------------------------------------
(* The engine's plan nodes, run on a materialised table                    *)

\* Unsigned machine integers (usize, IdxSize) are kept as hi * 2^30 + lo with
\* 0 <= lo < 2^30, so that values of 2^32 and more can be written down; row
\* counts, offsets and indices of the model stay below 2^30 and are plain
\* integers.
WideBase == 2 ^ 30

Wide(hi, lo) == [hi |-> hi, lo |-> lo]

FromInt(x) == Wide(x \div WideBase, x % WideBase)

\* 2^n for n >= 30.
WidePow2(n) == Wide(2 ^ (n - 30), 0)

WideSucc(w) == IF w.lo + 1 = WideBase THEN Wide(w.hi + 1, 0) ELSE Wide(w.hi, w.lo + 1)

\* min(w, r) for a plain integer r < 2^30.
WideMin(w, r) == IF w.hi > 0 THEN r ELSE Min(w.lo, r)

\* IdxSize::MAX = 2^32 - 1
IdxSizeMax == Wide(2 ^ (IdxBits - 30) - 1, WideBase - 1)

\* `x as IdxSize`: the low 32 bits.
AsIdxSize(w) == Wide(w.hi % (2 ^ (IdxBits - 30)), w.lo)

Clamp(x, lo, hi) == IF x < lo THEN lo ELSE IF x > hi THEN hi ELSE x

\* The engine's slice_offsets(offset, length, array_len): <<start, len>>.
\* length is an IdxSize; a stop of 2^30 or more is beyond every table here.
slice_offsets(offset, length, array_len) ==
  LET start == IF offset < 0 THEN offset + array_len ELSE offset
      cs    == Clamp(start, 0, array_len)
      ce    == IF length.hi > 0 THEN array_len
               ELSE Clamp(start + length.lo, 0, array_len)
  IN  <<cs, ce - cs>>

SliceFrame(df, offset, length) ==
  LET so == slice_offsets(offset, length, Height(df))
  IN  IF df.kind = "range"
      THEN RangeFrame(df.lo + so[1], df.lo + so[1] + so[2])
      ELSE Frame(df.schema, SubSeq(df.rows, so[1] + 1, so[1] + so[2]))

\* sql_expr: the engine's predicate parser, on the predicates the model uses.
sql_expr(s) ==
  CASE s = "age > 1"    -> [kind |-> "expr", col |-> "age", op |-> ">", lit |-> IntV(1)]
    [] s = "name = 'a'" -> [kind |-> "expr", col |-> "name", op |-> "=", lit |-> StrV("a")]
    [] OTHER            -> Err("SqlParse")

\* col(c0).is_null().or(col(c1).is_null())...: the OR over the given columns.
AnyNull(cs) == [kind |-> "anynull", cols |-> cs]

\* The columns a predicate reads.
ExprCols(e) == IF e.kind = "anynull" THEN Range(e.cols) ELSE {e.col}

\* A comparison with null is null, and a row whose predicate is null is dropped.
EvalPred(e, row) ==
  IF e.kind = "anynull" THEN \E c \in Range(e.cols) : IsNull(row[c])
  ELSE LET v == row[e.col]
       IN  /\ ~IsNull(v)
           /\ IF e.op = ">" THEN v.i > e.lit.i ELSE v = e.lit

FilterFrame(df, e) ==
  IF ~(ExprCols(e) \subseteq NameSet(df.schema))
  THEN Err("ColumnNotFound")
  ELSE Frame(df.schema, SelectSeq(Rows(df), LAMBDA r : EvalPred(e, r)))

SelectFrame(df, cs) ==
  IF \E i \in DOMAIN cs : cs[i] \notin NameSet(df.schema)
  THEN Err("ColumnNotFound")
  ELSE Frame([i \in DOMAIN cs |-> [name |-> cs[i], dtype |-> DType(df.schema, cs[i])]],
             [k \in 1..Height(df) |-> [c \in Range(cs) |-> RowAt(df, k - 1)[c]]])

DropFrame(df, cs) ==
  IF \E i \in DOMAIN cs : cs[i] \notin NameSet(df.schema)
  THEN Err("ColumnNotFound")
  ELSE LET keep == SelectSeq(df.schema, LAMBDA f : f.name \notin Range(cs))
       IN  Frame(keep,
                 [k \in 1..Height(df) |-> [c \in NameSet(keep) |-> RowAt(df, k - 1)[c]]])

\* Order of two non-null values of one dtype: -1, 0, 1.
CmpVal(a, b) ==
  IF a.t = "int"
  THEN (IF a.i < b.i THEN -1 ELSE IF a.i > b.i THEN 1 ELSE 0)
  ELSE (IF a.s = b.s THEN 0 ELSE IF Ord(a.s) < Ord(b.s) THEN -1 ELSE 1)

\* The sort key of a value: lower-cased when the sort folds case.
KeyOf(v, fold) == IF fold /\ v.t = "str" THEN StrV(ToLowercase(v.s)) ELSE v

\* Order of two rows on one key; nulls come first whatever the direction
\* (nulls_last is left at its default).
CmpKey(r1, r2, k, desc, fold) ==
  LET a == KeyOf(r1[k], fold)
      b == KeyOf(r2[k], fold)
  IN  IF IsNull(a) \/ IsNull(b)
      THEN (IF IsNull(a) /\ IsNull(b) THEN 0 ELSE IF IsNull(a) THEN -1 ELSE 1)
      ELSE (IF desc THEN CmpVal(b, a) ELSE CmpVal(a, b))

RECURSIVE CmpRows(_, _, _, _, _)
CmpRows(r1, r2, keys, desc, fold) ==
  IF keys = <<>> THEN 0
  ELSE LET c == CmpKey(r1, r2, Head(keys), desc, fold)
       IN  IF c # 0 THEN c ELSE CmpRows(r1, r2, Tail(keys), desc, fold)

IsSorted(rows, keys, desc, fold) ==
  \A i \in 1..(Len(rows) - 1) : CmpRows(rows[i], rows[i + 1], keys, desc, fold) <= 0

Perms(n) == {p \in [1..n -> 1..n] : \A i, j \in 1..n : p[i] = p[j] => i = j}

\* Every ordering of the rows that is sorted on the keys (the sort is not
\* stable, so tied rows may come out in any order).
SortedOrders(rows, keys, desc, fold) ==
  {r \in {[i \in 1..Len(rows) |-> rows[p[i]]] : p \in Perms(Len(rows))} :
     IsSorted(r, keys, desc, fold)}

\* sort_by_exprs / DataFrame::sort: the set of possible results.
SortFrame(df, keys, desc, fold) ==
  IF \E i \in DOMAIN keys : keys[i] \notin NameSet(df.schema)
  THEN {Err("ColumnNotFound")}
  ELSE IF fold /\ \E i \in DOMAIN keys : DType(df.schema, keys[i]) # "str"
  THEN {Err("SchemaMismatch")}
  ELSE {Frame(df.schema, r) : r \in SortedOrders(Rows(df), keys, desc, fold)}

\* The dedup key of a row: the subset's values, or the whole row.
UniqueKey(row, subset) ==
  IF subset = <<>> THEN row ELSE [i \in DOMAIN subset |-> row[subset[i]]]

\* unique_stable(subset, UniqueKeepStrategy::First)
UniqueFrame(df, subset) ==
  IF \E i \in DOMAIN subset : subset[i] \notin NameSet(df.schema)
  THEN Err("ColumnNotFound")
  ELSE LET rows == Rows(df)
           first(i) == \A j \in 1..(i - 1) :
                          UniqueKey(rows[j], subset) # UniqueKey(rows[i], subset)
           keep == {i \in DOMAIN rows : first(i)}
           nth[k \in 1..Cardinality(keep)] ==
             CHOOSE i \in keep : Cardinality({j \in keep : j < i}) = k - 1
       IN  Frame(df.schema, [k \in 1..Cardinality(keep) |-> rows[nth[k]]])

\* The possible results of one plan node on a table.
RunNode(node, df) ==
  CASE node.op = "filter" -> {FilterFrame(df, node.expr)}
    [] node.op = "select" -> {SelectFrame(df, node.cols)}
    [] node.op = "drop"   -> {DropFrame(df, node.cols)}
    [] node.op = "sort"   -> SortFrame(df, node.keys, node.desc, node.fold)
    [] node.op = "unique" -> {UniqueFrame(df, node.subset)}
    [] node.op = "slice"  -> {SliceFrame(df, node.offset, node.length)}

RECURSIVE RunPlan(_, _)
RunPlan(plan, df) ==
  IF plan = <<>> THEN {df}
  ELSE UNION {IF IsErr(o) THEN {o} ELSE RunPlan(Tail(plan), o) :
                o \in RunNode(Head(plan), df)}

\* A LazyFrame: the scanned source and the plan nodes appended so far.
Lazy(df) == [kind |-> "lazy", src |-> df, plan |-> <<>>]

Then(lf, node) == [lf EXCEPT !.plan = Append(@, node)]

\* lf.collect(): every result the engine may return.
Collect(lf) == RunPlan(lf.plan, lf.src)

\* One of the results of lf.collect().
AnyResult(lf) == CHOOSE o \in Collect(lf) : TRUE

SchemaOf(o) == IF IsErr(o) THEN o ELSE o.schema

\* lf.collect_schema(): the schema does not depend on the order of ties.
collect_schema(lf) == SchemaOf(AnyResult(lf))

HeightOf(o) == IF IsErr(o) THEN o ELSE [kind |-> "ok", v |-> Height(o)]

\* lf.select([len()]).collect(): the row count, or the plan's error.
RowCount(lf) == HeightOf(AnyResult(lf))

---------------------------------------------------------------------------
(* Strings of the command line: sequences of one-character strings         *)

Ok(v) == [kind |-> "ok", v |-> v]

ErrWith(e, arg) == [kind |-> "err", err |-> e, arg |-> arg]

Digits == {"0", "1", "2", "3", "4", "5", "6", "7", "8", "9"}

DigitVal(c) ==
  CASE c = "0" -> 0 [] c = "1" -> 1 [] c = "2" -> 2 [] c = "3" -> 3 [] c = "4" -> 4
    [] c = "5" -> 5 [] c = "6" -> 6 [] c = "7" -> 7 [] c = "8" -> 8 [] c = "9" -> 9

AllDigits(s) == \A i \in DOMAIN s : s[i] \in Digits

RECURSIVE DigitsVal(_)
DigitsVal(s) ==
  IF s = <<>> THEN 0
  ELSE 10 * DigitsVal(SubSeq(s, 1, Len(s) - 1)) + DigitVal(s[Len(s)])

\* n_str.contains('.')
Contains(s, c) == \E i \in DOMAIN s : s[i] = c

\* Index of the first occurrence of a character of cs in s, or 0.
FirstOf(s, cs) ==
  IF \E i \in DOMAIN s : s[i] \in cs
  THEN CHOOSE i \in DOMAIN s : s[i] \in cs /\ \A j \in 1..(i - 1) : s[j] \notin cs
  ELSE 0

\* str::parse::<usize>(): an optional '+', then one or more digits (the
\* numerals of the model are short: none is out of usize's range).
parse_usize(s) ==
  LET body == IF s # <<>> /\ Head(s) = "+" THEN Tail(s) ELSE s
  IN  IF body # <<>> /\ AllDigits(body)
      THEN Ok(DigitsVal(body))
      ELSE Err("ParseIntError")

\* The letters of inf, infinity and nan in lower case.
LowerCase(s) ==
  [i \in DOMAIN s |->
     CASE s[i] = "I" -> "i" [] s[i] = "N" -> "n" [] s[i] = "F" -> "f"
       [] s[i] = "A" -> "a" [] s[i] = "T" -> "t" [] s[i] = "Y" -> "y"
       [] OTHER -> s[i]]

\* The finite value of integer digits ip, fraction digits fp and exponent
\* digits edig (eneg: the exponent is negative; epos = 0: there is none).
ParseDigits(neg, ip, fp, epos, eneg, edig) ==
  IF /\ AllDigits(ip) /\ AllDigits(fp) /\ Len(ip) + Len(fp) >= 1
     /\ (epos = 0 \/ (edig # <<>> /\ AllDigits(edig)))
  THEN [kind |-> "num", neg |-> neg,
        num  |-> DigitsVal(ip \o fp) * (IF eneg THEN 1 ELSE 10 ^ DigitsVal(edig)),
        den  |-> (10 ^ Len(fp)) * (IF eneg THEN 10 ^ DigitsVal(edig) ELSE 1)]
  ELSE Err("ParseFloatError")

\* The mantissa cut at its point (dpos = 0: there is none).
ParsePoint(neg, mant, dpos, epos, expo) ==
  ParseDigits(neg,
              IF dpos = 0 THEN mant ELSE SubSeq(mant, 1, dpos - 1),
              IF dpos = 0 THEN <<>> ELSE SubSeq(mant, dpos + 1, Len(mant)),
              epos,
              expo # <<>> /\ Head(expo) = "-",
              IF expo # <<>> /\ Head(expo) \in {"+", "-"} THEN Tail(expo) ELSE expo)

ParseMantissa(neg, mant, epos, expo) ==
  ParsePoint(neg, mant, FirstOf(mant, {"."}), epos, expo)

\* The numeral cut at its exponent mark (epos = 0: there is none).
ParseExponent(neg, body, epos) ==
  ParseMantissa(neg,
                IF epos = 0 THEN body ELSE SubSeq(body, 1, epos - 1),
                epos,
                IF epos = 0 THEN <<>> ELSE SubSeq(body, epos + 1, Len(body)))

\* The numeral after its sign, low being body in lower case.
ParseUnsigned(neg, body, low) ==
  IF low \in {<<"i", "n", "f">>, <<"i", "n", "f", "i", "n", "i", "t", "y">>}
  THEN [kind |-> "inf", neg |-> neg]
  ELSE IF low = <<"n", "a", "n">>
  THEN [kind |-> "nan"]
  ELSE ParseExponent(neg, body, FirstOf(body, {"e", "E"}))

ParseSigned(neg, body) == ParseUnsigned(neg, body, LowerCase(body))

\* str::parse::<f64>(): [sign] (inf | infinity | nan | digits[.digits][e[sign]digits]);
\* a finite value is the signed rational num / den (binary rounding is not modelled).
parse_f64(s) ==
  ParseSigned(s # <<>> /\ Head(s) = "-",
              IF s # <<>> /\ Head(s) \in {"+", "-"} THEN Tail(s) ELSE s)

\* The product cut to an integer without rounding.
RoundToUsize_Truncate(row_count, frac) ==
  IF frac.kind # "num" \/ frac.neg THEN 0
  ELSE (row_count * frac.num) \div frac.den

\* (row_count as f64 * frac).round() as usize: round half away from zero; the
\* cast saturates, so a negative or NaN product is 0 (an infinite fraction
\* needs an exponent the numerals of the model do not reach).
RoundToUsize(row_count, frac) ==
  IF frac.kind # "num" \/ frac.neg THEN 0
  ELSE (2 * row_count * frac.num + frac.den) \div (2 * frac.den)

---------------------------------------------------------------------------
(* Files and formats                                                       *)

\* Path::extension(): the text after the last '.', unless the name has no
\* '.' or only a leading one.
Extension(path) ==
  LET dots == {i \in DOMAIN path : path[i] = "."}
      last == CHOOSE i \in dots : \A j \in dots : j <= i
  IN  IF dots = {} \/ last = 1 THEN None
      ELSE Some(SubSeq(path, last + 1, Len(path)))

\* Path::file_stem(): the name without its extension.
FileStem(path) ==
  LET dots == {i \in DOMAIN path : path[i] = "."}
      last == CHOOSE i \in dots : \A j \in dots : j <= i
  IN  IF dots = {} \/ last = 1 THEN path ELSE SubSeq(path, 1, last - 1)

ExtCsv == <<"c", "s", "v">>

ExtTxt == <<"t", "x", "t">>

ExtTsv == <<"t", "s", "v">>

ExtParquet == <<"p", "a", "r", "q", "u", "e", "t">>

ExtPq == <<"p", "q">>

ExtJson == <<"j", "s", "o", "n">>

ExtJsonl == <<"j", "s", "o", "n", "l">>

ExtNdjson == <<"n", "d", "j", "s", "o", "n">>

ExtGz == <<"g", "z">>

ExtZst == <<"z", "s", "t">>

\* The encoding a reader of the given format expects in the file.
ReaderEncoding(format) ==
  CASE format \in {ExtCsv, ExtTxt}             -> "csv"
    [] format = ExtTsv                         -> "tsv"
    [] format \in {ExtParquet, ExtPq}          -> "parquet"
    [] format \in {ExtJson, ExtJsonl, ExtNdjson} -> "jsonl"
    [] OTHER                                   -> "unsupported"

\* A faulty variant: the last extension, whatever it is.
DetectFormat_LastOnly(path) ==
  LET extension == Extension(path)
  IN  IF ~IsSome(extension)
      THEN ErrWith("Could not determine file extension", path)
      ELSE Ok(Unwrap(extension))

\* The format of a path: its extension, or the inner one under gz / zst.
DetectFormat(path) ==
  LET extension == Extension(path)
      inner     == Extension(FileStem(path))
  IN  IF ~IsSome(extension)
      THEN ErrWith("Could not determine file extension", path)
      ELSE IF Unwrap(extension) \in {ExtGz, ExtZst}
      THEN (IF IsSome(inner) THEN Ok(Unwrap(inner))
            ELSE ErrWith("Compressed file missing format extension", path))
      ELSE Ok(Unwrap(extension))

\* read_to_lazyframe(file_path): a file on the disk is [enc, df]: the
\* encoding of its bytes and the table they hold.
read_to_lazyframe(path, d) ==
  LET format == DetectFormat(path)
  IN  IF IsErr(format) THEN format
      ELSE IF ReaderEncoding(format.v) = "unsupported"
      THEN ErrWith("Unsupported file format", format.v)
      ELSE IF path \notin DOMAIN d THEN ErrWith("Io", path)
      ELSE IF d[path].enc # ReaderEncoding(format.v) THEN ErrWith("Compute", path)
      ELSE Lazy(d[path].df)

---------------------------------------------------------------------------
(* The command line and the pipeline                                       *)

BaseCli ==
  [command |-> "cat", files |-> <<>>, filter |-> None, select |-> None,
   drop |-> None, sort_keys |-> <<>>, reverse |-> FALSE, ignore_case |-> FALSE,
   unique |-> FALSE, unique_on |-> None, show_nulls |-> FALSE, all |-> FALSE,
   show_schema |-> FALSE, limit |-> None, offset |-> None, output |-> None]

\* Cli::has_transformations
has_transformations(c) ==
  \/ IsSome(c.filter)
  \/ IsSome(c.select)
  \/ IsSome(c.drop)
  \/ c.sort_keys # <<>>
  \/ c.unique
  \/ IsSome(c.unique_on)
  \/ IsSome(c.limit)
  \/ IsSome(c.offset)
  \/ c.show_nulls

\* 1. Filter rows FIRST
StageFilter(lf, c) ==
  IF IsSome(c.filter)
  THEN Then(lf, [op |-> "filter", expr |-> sql_expr(Unwrap(c.filter))])
  ELSE lf

\* 2. Select, then drop
StageSelect(lf, c) ==
  IF IsSome(c.select) THEN Then(lf, [op |-> "select", cols |-> Unwrap(c.select)]) ELSE lf

StageDrop(lf, c) ==
  IF IsSome(c.drop) THEN Then(lf, [op |-> "drop", cols |-> Unwrap(c.drop)]) ELSE lf

\* 3. Sort
StageSort(lf, c) ==
  IF c.sort_keys # <<>>
  THEN Then(lf, [op |-> "sort", keys |-> c.sort_keys, desc |-> c.reverse,
                 fold |-> c.ignore_case])
  ELSE lf

\* A faulty variant: the flag wins over the scope.
StageUnique_FlagFirst(lf, c) ==
  IF c.unique THEN Then(lf, [op |-> "unique", subset |-> <<>>])
  ELSE IF IsSome(c.unique_on) THEN Then(lf, [op |-> "unique", subset |-> Unwrap(c.unique_on)])
  ELSE lf

\* 4. Unique: the scope wins over the flag
StageUnique(lf, c) ==
  IF IsSome(c.unique_on) THEN Then(lf, [op |-> "unique", subset |-> Unwrap(c.unique_on)])
  ELSE IF c.unique THEN Then(lf, [op |-> "unique", subset |-> <<>>])
  ELSE lf

\* 5. Offset and limit
StageSlice(lf, c) ==
  IF IsSome(c.offset)
  THEN Then(lf, [op |-> "slice", offset |-> Unwrap(c.offset),
                 length |-> IF IsSome(c.limit) THEN AsIdxSize(Unwrap(c.limit))
                            ELSE IdxSizeMax])
  ELSE IF IsSome(c.limit)
  THEN Then(lf, [op |-> "slice", offset |-> 0, length |-> AsIdxSize(Unwrap(c.limit))])
  ELSE lf

\* apply_transformations with the projection moved before the filter.
apply_transformations_SelectFirst(lf, c) ==
  IF IsSome(c.filter) /\ IsErr(sql_expr(Unwrap(c.filter)))
  THEN ErrWith("Failed to parse filter", Unwrap(c.filter))
  ELSE StageSlice(StageUnique(StageSort(StageFilter(StageDrop(StageSelect(lf, c), c), c), c), c), c)

\* A faulty variant: a predicate that does not parse is left out.
apply_transformations_SkipBadFilter(lf, c) ==
  IF IsSome(c.filter) /\ IsErr(sql_expr(Unwrap(c.filter)))
  THEN StageSlice(StageUnique(StageSort(StageDrop(StageSelect(lf, c), c), c), c), c)
  ELSE StageSlice(StageUnique(StageSort(StageDrop(StageSelect(StageFilter(lf, c), c), c), c), c), c)

\* apply_transformations(lf, cli): the lazy frame with the stages appended,
\* or the error of a predicate that does not parse.
apply_transformations(lf, c) ==
  IF IsSome(c.filter) /\ IsErr(sql_expr(Unwrap(c.filter)))
  THEN ErrWith("Failed to parse filter", Unwrap(c.filter))
  ELSE StageSlice(StageUnique(StageSort(StageDrop(StageSelect(StageFilter(lf, c), c), c), c), c), c)

---------------------------------------------------------------------------
(* The windowed sampler                                                    *)

\* limited_df.take(&idx_series)
Take(df, ix) == Frame(df.schema, [i \in DOMAIN ix |-> RowAt(df, ix[i])])

Injective(f) == \A i, j \in DOMAIN f : f[i] = f[j] => i = j

\* rand::seq::index::sample(rng, length, amount): `amount` distinct indices of
\* 0..length-1 in the order drawn.  For short inputs every outcome; for long
\* ones the runs that start at either end or in the middle, in either direction.
sample(length, amount) ==
  IF amount = 0 THEN {<<>>}
  ELSE IF length <= SmallDraw
  THEN {ix \in [1..amount -> 0..(length - 1)] : Injective(ix)}
  ELSE {[i \in 1..amount |-> (start + (i - 1) * step) % length] :
          start \in {0, length \div 2, length - 1}, step \in {1, length - 1}}

\* The window without its upper bound.
sample_window_NoMin(n, row_count) == Max(n * WindowFactor, WindowFloor)

\* let sample_window = (n * 1000).max(100_000).min(row_count);
sample_window(n, row_count) == Min(Max(n * WindowFactor, WindowFloor), row_count)

\* What the sampler returns, with the values it computed on the way.
Sampled(df, rc, w, ix) ==
  [kind |-> "ok", df |-> df, row_count |-> rc, window |-> w, idx |-> ix]

\* The gather from the materialised window.
SampleFrom(limited_df, rc, sample_size, w) ==
  IF IsErr(limited_df) THEN {limited_df}
  ELSE {Sampled(Take(limited_df, ix), rc, Some(w), Some(ix)) :
          ix \in sample(Height(limited_df), sample_size)}

\* The draw from the first w rows of the pipeline's result.
sample_from_window(lf, rc, sample_size, w) ==
  UNION {SampleFrom(ldf, rc, sample_size, w) :
           ldf \in Collect(Then(lf, [op |-> "slice", offset |-> 0,
                                     length |-> AsIdxSize(FromInt(w))]))}

\* The sampler once the rows are counted: whole says that the whole result
\* is returned without a draw.
sample_counted(lf, n, rc, whole) ==
  IF whole
  THEN {IF IsErr(o) THEN o ELSE Sampled(o, rc, None, None) : o \in Collect(lf)}
  ELSE sample_from_window(lf, rc, Min(n, rc), sample_window(n, rc))

\* The sampler after the count of the rows; early says whether a sample
\* that covers the result returns it whole.
sample_rows(lf, n, row_count, early) ==
  IF IsErr(row_count) THEN {row_count}
  ELSE sample_counted(lf, n, row_count.v, early /\ Min(n, row_count.v) >= row_count.v)

\* The sampler without its early return: it draws even when n covers the table.
apply_random_sample_streaming_AlwaysDraw(lf, n) == sample_rows(lf, n, RowCount(lf), FALSE)

\* apply_random_sample_streaming(lf, n): every result it may return.
apply_random_sample_streaming(lf, n) == sample_rows(lf, n, RowCount(lf), TRUE)

---------------------------------------------------------------------------
(* Output                                                                  *)

\* A file written by the run: the path, the encoding of its bytes, the table
\* and whether it came from a streaming sink or from a materialised table.
Written(path, enc, df, via) == [path |-> path, enc |-> enc, df |-> df, via |-> via]

\* write_output_file(df, output_path)
write_output_file(df, path) ==
  LET extension == Extension(path)
      e         == Unwrap(extension)
  IN  IF ~IsSome(extension)
      THEN ErrWith("Could not determine output file extension", path)
      ELSE CASE e \in {ExtCsv, ExtTxt}       -> Ok(Written(path, "csv", df, "eager"))
             [] e = ExtTsv                   -> Ok(Written(path, "tsv", df, "eager"))
             [] e \in {ExtParquet, ExtPq}    -> Ok(Written(path, "parquet", df, "eager"))
             [] e = ExtJson                  -> Ok(Written(path, "json", df, "eager"))
             [] e \in {ExtJsonl, ExtNdjson}  -> Ok(Written(path, "jsonl", df, "eager"))
             [] OTHER -> ErrWith("Unsupported output format", e)

\* sink_to_file(lf, output_path): every outcome.
sink_to_file(lf, path) ==
  LET extension == Extension(path)
      e         == Unwrap(extension)
  IN  IF ~IsSome(extension)
      THEN {ErrWith("Could not determine output file extension", path)}
      ELSE CASE e \in {ExtParquet, ExtPq} ->
                  {IF IsErr(df) THEN df ELSE Ok(Written(path, "parquet", df, "sink")) :
                     df \in Collect(lf)}
             [] e \in {ExtCsv, ExtTxt} ->
                  {IF IsErr(df) THEN df ELSE Ok(Written(path, "csv", df, "sink")) :
                     df \in Collect(lf)}
             [] e \in {ExtTsv, ExtJson, ExtJsonl, ExtNdjson} ->
                  {IF IsErr(df) THEN df ELSE write_output_file(df, path) :
                     df \in Collect(lf)}
             [] OTHER -> {ErrWith("Unsupported output format", e)}

\* print_dataframe(df, is_tty): a table for a terminal, CSV text otherwise.
print_dataframe(df, is_tty) == [kind |-> "df", df |-> df, pretty |-> is_tty]

---------------------------------------------------------------------------
(* main: what processing one input file does                               *)

\* What the run remembers of the last file it processed (for the properties).
NoProbe ==
  [plan |-> <<>>, n |-> None, row_count |-> None, window |-> None, idx |-> None,
   sampled |-> None, route |-> None]

\* The outcome of one file: the error if any, what was printed, the file
\* written if any.
Outcome(e, out, file, pr) == [err |-> e, out |-> out, file |-> file, probe |-> pr]

Failed(e, pr) == Outcome(Some(e), <<>>, None, pr)

\* main.rs:288-293: write the table, or print it.
Emit(c, df, is_tty, pr) ==
  IF IsSome(c.output)
  THEN LET w == write_output_file(df, Unwrap(c.output))
       IN  IF IsErr(w) THEN Failed(w, pr) ELSE Outcome(None, <<>>, Some(w.v), pr)
  ELSE Outcome(None, <<print_dataframe(df, is_tty)>>, None, pr)

\* The fraction of the rows, rounded.
sample_fraction(n_str, row_count, frac) ==
  IF IsErr(row_count) THEN row_count
  ELSE IF IsErr(frac) THEN ErrWith("Invalid fraction for sample", n_str)
  ELSE Ok(RoundToUsize(row_count.v, frac))

sample_count(n_str, v) ==
  IF IsErr(v) THEN ErrWith("Invalid number for sample", n_str) ELSE v

\* main.rs:263-272: the N of sample, a count or a fraction of the rows.
sample_n(n_str, lf) ==
  IF Contains(n_str, ".")
  THEN sample_fraction(n_str, RowCount(lf), parse_f64(n_str))
  ELSE sample_count(n_str, parse_usize(n_str))

DefaultN == <<"1", "0">>

\* main.rs:276-281: sort the sample when sort keys were given.
sort_sample(c, df) ==
  IF c.sort_keys # <<>> THEN SortFrame(df, c.sort_keys, c.reverse, FALSE) ELSE {df}

\* main.rs:274-291: the sample of n rows is drawn, sorted and emitted.
sample_emit(c, lf, n, is_tty, pr) ==
  IF IsErr(n) THEN {Failed(n, pr)}
  ELSE UNION {
         IF IsErr(s) THEN {Failed(s, pr)}
         ELSE LET pr2 == [pr EXCEPT !.n = Some(n.v), !.row_count = Some(s.row_count),
                                    !.window = s.window, !.idx = s.idx,
                                    !.sampled = Some(s.df)]
              IN  {IF IsErr(df) THEN Failed(df, pr2) ELSE Emit(c, df, is_tty, pr2) :
                     df \in sort_sample(c, s.df)} :
         s \in apply_random_sample_streaming(lf, n.v)}

\* main.rs:258-283: the sample branch.
sample_branch(c, lf, n_for_sample, is_tty, pr) ==
  sample_emit(c, lf,
              sample_n(IF IsSome(n_for_sample) THEN Unwrap(n_for_sample) ELSE DefaultN, lf),
              is_tty, pr)

\* let lf = read_to_lazyframe(file_path)?; let lf = apply_transformations(lf, &cli)?;
Transform(lf0, c) == IF IsErr(lf0) THEN lf0 ELSE apply_transformations(lf0, c)

read_and_transform(path, d, c) == Transform(read_to_lazyframe(path, d), c)

\* main.rs:249-293: what is done with the pipeline lf of one file; sunk says
\* whether it goes to sink_to_file.
cat_pipeline(c, lf, n_for_sample, is_tty, pr, sunk) ==
  IF sunk
  THEN {IF IsErr(w) THEN Failed(w, pr) ELSE Outcome(None, <<>>, Some(w.v), pr) :
          w \in sink_to_file(lf, Unwrap(c.output))}
  ELSE IF c.command = "sample"
  THEN sample_branch(c, lf, n_for_sample, is_tty, pr)
  ELSE {IF IsErr(df) THEN Failed(df, pr) ELSE Emit(c, df, is_tty, pr) :
          df \in Collect(lf)}

\* main.rs:245-247: the file is read and the pipeline built, or the run fails.
cat_lazyframe(c, lf, n_for_sample, is_tty, sunk) ==
  IF IsErr(lf) THEN {Failed(lf, NoProbe)}
  ELSE cat_pipeline(c, lf, n_for_sample, is_tty, [NoProbe EXCEPT !.plan = lf.plan], sunk)

\* A faulty variant: a sample is sunk like any other result.
cat_file_SinkSample(c, cli_with_limit, n_for_sample, path, d, is_tty) ==
  cat_lazyframe(c, read_and_transform(path, d, cli_with_limit), n_for_sample, is_tty,
                IsSome(c.output))

\* main.rs:245-293: one file of cat / head / tail / sample.
cat_file(c, cli_with_limit, n_for_sample, path, d, is_tty) ==
  cat_lazyframe(c, read_and_transform(path, d, cli_with_limit), n_for_sample, is_tty,
                IsSome(c.output) /\ c.command # "sample")

---------------------------------------------------------------------------
(* lint                                                                    *)

\* col(c).null_count()
NullCount(df, c) == Cardinality({i \in 1..Height(df) : IsNull(RowAt(df, i - 1)[c])})

\* (count / total_rows) * 100 as printed by {:.2}: in hundredths of a percent,
\* to the nearest one.
Percent2(count, total_rows) == (2 * count * 10000 + total_rows) \div (2 * total_rows)

\* A faulty variant: a line for every column, with or without nulls.
null_scan_EveryColumn(df, schema, total_rows) ==
  LET hit == Names(schema)
  IN  IF hit = <<>> THEN <<[kind |-> "no_nulls"]>>
      ELSE [i \in DOMAIN hit |->
              [kind |-> "nulls", col |-> hit[i], null_count |-> NullCount(df, hit[i]),
               pct |-> IF total_rows = 0 THEN 0
                       ELSE Percent2(NullCount(df, hit[i]), total_rows)]]

\* Check 1: one line per column with nulls, in schema order, or the
\* "no null values" line.
null_scan(df, schema, total_rows) ==
  LET hit == SelectSeq(Names(schema), LAMBDA c : NullCount(df, c) > 0)
  IN  IF hit = <<>> THEN <<[kind |-> "no_nulls"]>>
      ELSE [i \in DOMAIN hit |->
              [kind |-> "nulls", col |-> hit[i], null_count |-> NullCount(df, hit[i]),
               pct |-> Percent2(NullCount(df, hit[i]), total_rows)]]

\* The line of check 2 for the given count of unique rows.
duplicate_line(unique_col_names, unique_count, total_rows) ==
  IF IsErr(unique_count) THEN unique_count
  ELSE IF total_rows - unique_count.v > 0
  THEN Ok(<<[kind |-> "duplicates", count |-> total_rows - unique_count.v,
             cols |-> unique_col_names,
             pct |-> Percent2(total_rows - unique_count.v, total_rows)]>>)
  ELSE Ok(<<[kind |-> "no_duplicates", cols |-> unique_col_names]>>)

duplicate_check(lf, unique_col_names, total_rows) ==
  duplicate_line(unique_col_names,
                 RowCount(Then(lf, [op |-> "unique", subset |-> unique_col_names])),
                 total_rows)

\* A faulty variant: the scope alone does not start the duplicate count.
duplicate_scan_FlagOnly(lf, c, total_rows) ==
  IF ~c.unique THEN Ok(<<>>)
  ELSE duplicate_check(lf, IF IsSome(c.unique_on) THEN Unwrap(c.unique_on) ELSE <<>>,
                       total_rows)

\* Check 2: the duplicate count, when --unique or --unique-on is given.
duplicate_scan(lf, c, total_rows) ==
  IF ~(c.unique \/ IsSome(c.unique_on)) THEN Ok(<<>>)
  ELSE duplicate_check(lf, IF IsSome(c.unique_on) THEN Unwrap(c.unique_on) ELSE <<>>,
                       total_rows)

\* Check 3: the schema, when asked for.
schema_dump(schema, c) ==
  IF c.show_schema THEN <<[kind |-> "schema", schema |-> schema]>> ELSE <<>>

\* A faulty variant: no cap on the rows shown.
null_rows_Uncapped(lf, schema, c) ==
  LET cols_to_check == IF IsSome(c.select) THEN Unwrap(c.select) ELSE Names(schema)
      null_rows_lf  == Then(lf, [op |-> "filter", expr |-> AnyNull(cols_to_check)])
      title         == <<[kind |-> "null_rows_title", all |-> c.all,
                          checking_all |-> ~IsSome(c.select)]>>
  IN  IF ~c.show_nulls THEN {<<<<>>, None>>}
      ELSE {IF IsErr(df) THEN <<title, Some(df)>>
            ELSE <<title \o <<[kind |-> "df", df |-> df, pretty |-> TRUE]>>, None>> :
              df \in Collect(null_rows_lf)}

\* Check 4: the rows with a null in a checked column: every possible outcome
\* as <<lines printed, error if any>>.
null_rows(lf, schema, c) ==
  LET cols_to_check == IF IsSome(c.select) THEN Unwrap(c.select) ELSE Names(schema)
      null_rows_lf  == Then(lf, [op |-> "filter", expr |-> AnyNull(cols_to_check)])
      limited_lf    == IF c.all THEN null_rows_lf
                       ELSE Then(null_rows_lf, [op |-> "slice", offset |-> 0,
                                                length |-> FromInt(NullRowsCap)])
      title         == <<[kind |-> "null_rows_title", all |-> c.all,
                          checking_all |-> ~IsSome(c.select)]>>
  IN  IF ~c.show_nulls THEN {<<<<>>, None>>}
      ELSE IF cols_to_check = <<>> THEN {<<<<>>, Some(Err("panic: index out of bounds"))>>}
      ELSE {IF IsErr(df) THEN <<title, Some(df)>>
            ELSE <<title \o <<[kind |-> "df", df |-> df, pretty |-> TRUE]>>, None>> :
              df \in Collect(limited_lf)}

\* Checks 2 to 4, after the lines `first` of the header and of check 1.
lint_checks(lf, c, schema, first, dups, pr) ==
  IF IsErr(dups) THEN {Outcome(Some(dups), first, None, pr)}
  ELSE {Outcome(nr[2], first \o dups.v \o schema_dump(schema, c) \o nr[1], None, pr) :
          nr \in null_rows(lf, schema, c)}

\* The header line and check 1 on the collected table df.
lint_collected(lf, c, schema, total_rows, df) ==
  IF IsErr(df) THEN {Failed(df, NoProbe)}
  ELSE lint_checks(lf, c, schema,
                   <<[kind |-> "linting", rows |-> total_rows, cols |-> Len(schema)]>>
                     \o null_scan(df, schema, total_rows),
                   duplicate_scan(lf, c, total_rows),
                   [NoProbe EXCEPT !.plan = lf.plan, !.row_count = Some(total_rows)])

\* lint_data(lf, cli): every outcome.
lint_data(lf, c) ==
  lint_collected(lf, c, collect_schema(lf), RowCount(lf).v, AnyResult(lf))

lint_lazyframe(lf, c) == IF IsErr(lf) THEN {Failed(lf, NoProbe)} ELSE lint_data(lf, c)

\* main.rs:129-142: one file of lint.
lint_file(c, path, d) == lint_lazyframe(read_and_transform(path, d, c), c)

---------------------------------------------------------------------------
(* stats                                                                   *)

\* f64 values of the report: an exact fraction in lowest terms, the square
\* root of one, or NaN.
RECURSIVE Gcd(_, _)
Gcd(a, b) == IF b = 0 THEN a ELSE Gcd(b, a % b)

Abs(x) == IF x < 0 THEN -x ELSE x

F64(num, den) ==
  LET g == Gcd(Abs(num), den)
  IN  [t |-> "f64", num |-> num \div g, den |-> den \div g]

Sqrt(num, den) ==
  LET g == Gcd(Abs(num), den)
  IN  [t |-> "sqrt", num |-> num \div g, den |-> den \div g]

NaN == [t |-> "nan"]

\* dtype.is_numeric()
IsNumeric(dtype) == dtype \in {"int", "f64"}

\* The non-null integers of column c, in row order.
Values(df, c) ==
  LET col == [i \in 1..Height(df) |-> RowAt(df, i - 1)[c]]
      nn  == SelectSeq(col, LAMBDA v : ~IsNull(v))
  IN  [i \in DOMAIN nn |-> nn[i].i]

RECURSIVE Sum(_)
Sum(xs) == IF xs = <<>> THEN 0 ELSE xs[1] + Sum(Tail(xs))

\* The r-th smallest of xs, r from 1.
Rank(xs, r) ==
  CHOOSE x \in Range(xs) :
    /\ Cardinality({i \in DOMAIN xs : xs[i] < x}) < r
    /\ r <= Cardinality({i \in DOMAIN xs : xs[i] <= x})

\* mean(): null (NaN in the report) without values.
Mean(xs) == IF xs = <<>> THEN NaN ELSE F64(Sum(xs), Len(xs))

\* std(1): the sample standard deviation, null with fewer than two values.
Std(xs) ==
  LET k  == Len(xs)
      sq == [i \in DOMAIN xs |-> xs[i] * xs[i]]
  IN  IF k < 2 THEN NaN ELSE Sqrt(k * Sum(sq) - Sum(xs) * Sum(xs), k * (k - 1))

MinOf(xs) == IF xs = <<>> THEN NaN ELSE F64(Rank(xs, 1), 1)

MaxOf(xs) == IF xs = <<>> THEN NaN ELSE F64(Rank(xs, Len(xs)), 1)

\* median(): the middle value, or the mean of the two middle values.
Median(xs) ==
  LET k == Len(xs)
  IN  IF k = 0 THEN NaN
      ELSE IF k % 2 = 1 THEN F64(Rank(xs, (k + 1) \div 2), 1)
      ELSE F64(Rank(xs, k \div 2) + Rank(xs, k \div 2 + 1), 2)

\* The eight columns of the report.
StatsSchema ==
  <<[name |-> "column", dtype |-> "str"], [name |-> "count", dtype |-> "f64"],
    [name |-> "null_count", dtype |-> "f64"], [name |-> "mean", dtype |-> "f64"],
    [name |-> "std", dtype |-> "f64"], [name |-> "min", dtype |-> "f64"],
    [name |-> "median", dtype |-> "f64"], [name |-> "max", dtype |-> "f64"]>>

\* The row of the report for a column with the non-null values xs.
stats_row(df, c, xs) ==
  [column |-> StrV(c),
   count |-> F64(Len(xs), 1),
   null_count |-> F64(NullCount(df, c), 1),
   mean |-> Mean(xs), std |-> Std(xs), min |-> MinOf(xs),
   median |-> Median(xs), max |-> MaxOf(xs)]

\* The report on the collected table df; empty is the report of a table
\* without numeric columns.
stats_report(numeric_cols, df, empty) ==
  IF IsErr(df) THEN df
  ELSE IF numeric_cols = <<>> THEN empty
  ELSE Frame(StatsSchema,
             [i \in DOMAIN numeric_cols |->
                stats_row(df, numeric_cols[i], Values(df, numeric_cols[i]))])

\* The numeric columns of a schema, in its order.
numeric_columns(schema) == SelectSeq(Names(schema), LAMBDA c : IsNumeric(DType(schema, c)))

\* A faulty variant: no report columns at all when no column is numeric.
compute_stats_lazy_Bare(lf) ==
  stats_report(numeric_columns(collect_schema(lf)), AnyResult(lf), Frame(<<>>, <<>>))

\* compute_stats_lazy(lf): count() counts the non-null values.
compute_stats_lazy(lf) ==
  stats_report(numeric_columns(collect_schema(lf)), AnyResult(lf), Frame(StatsSchema, <<>>))

\* The row of compute_stats for column c: series.len() counts every value,
\* null or not.
compute_stats_row(df, c) ==
  [stats_row(df, c, Values(df, c)) EXCEPT !.count = F64(Height(df), 1)]

\* compute_stats(df): one row per numeric column of df, in its order.
compute_stats_rows(df, numeric_cols) ==
  Frame(StatsSchema,
        [i \in DOMAIN numeric_cols |-> compute_stats_row(df, numeric_cols[i])])

compute_stats(df) == compute_stats_rows(df, numeric_columns(df.schema))

\* The body of test_stats_with_filter for a collected table or its failure.
stats_collected(df) == IF IsErr(df) THEN df ELSE compute_stats(df)

\* main.rs:1949-1978: read, transform, collect, compute_stats: every outcome.
stats_test(c, lf) ==
  IF IsErr(lf) THEN {lf} ELSE {stats_collected(df) : df \in Collect(lf)}

\* main.rs:187-193: the report is written or printed.
stats_emit(c, stats_df, is_tty, pr) ==
  IF IsErr(stats_df) THEN {Failed(stats_df, pr)} ELSE {Emit(c, stats_df, is_tty, pr)}

stats_lazyframe(c, lf, is_tty) ==
  IF IsErr(lf) THEN {Failed(lf, NoProbe)}
  ELSE stats_emit(c, compute_stats_lazy(lf), is_tty, [NoProbe EXCEPT !.plan = lf.plan])

\* main.rs:183-194: one file of stats.
stats_file(c, path, d, is_tty) == stats_lazyframe(c, read_and_transform(path, d, c), is_tty)

---------------------------------------------------------------------------
(* count                                                                   *)

\* count_shape(file_path): the rows and columns of the file as it is.
count_shape(path, d) ==
  LET format == DetectFormat(path)
  IN  IF IsErr(format) THEN format
      ELSE IF ReaderEncoding(format.v) = "unsupported"
      THEN ErrWith("Unsupported file format", format.v)
      ELSE IF path \notin DOMAIN d THEN ErrWith("Io", path)
      ELSE IF d[path].enc # ReaderEncoding(format.v) THEN ErrWith("Compute", path)
      ELSE Ok(<<Height(d[path].df), Width(d[path].df)>>)

\* count_lazyframe(lf): collect, then height and width: every outcome.
count_lazyframe(lf) ==
  {IF IsErr(df) THEN df ELSE Ok(<<Height(df), Width(df)>>) : df \in Collect(lf)}

\* The line of count for the shape rc, or the failure.
count_line(path, rc, pr) ==
  IF IsErr(rc) THEN Failed(rc, pr)
  ELSE Outcome(None, <<[kind |-> "count", rows |-> rc.v[1], cols |-> rc.v[2],
                        path |-> path]>>, None, pr)

\* main.rs:153-156: the transformation path.
count_pipeline(path, lf, pr) ==
  IF IsErr(lf) THEN {Failed(lf, pr)}
  ELSE {count_line(path, rc, [pr EXCEPT !.plan = lf.plan]) : rc \in count_lazyframe(lf)}

\* main.rs:151-163: one file of count.
count_file(c, path, d) ==
  IF has_transformations(c)
  THEN count_pipeline(path, read_and_transform(path, d, c),
                      [NoProbe EXCEPT !.route = Some("pipeline")])
  ELSE {count_line(path, count_shape(path, d),
                   [NoProbe EXCEPT !.route = Some("count_shape")])}

\* A faulty variant: the first argument stays among the files.
parse_n_and_files_KeepFirst(c) ==
  IF c.files = <<>> THEN [n |-> None, files |-> <<>>]
  ELSE IF ~IsErr(parse_f64(c.files[1]))
  THEN [n |-> Some(c.files[1]), files |-> c.files]
  ELSE [n |-> None, files |-> c.files]

\* parse_n_and_files(cli)
parse_n_and_files(c) ==
  IF c.files = <<>> THEN [n |-> None, files |-> <<>>]
  ELSE IF ~IsErr(parse_f64(c.files[1]))
  THEN [n |-> Some(c.files[1]), files |-> Tail(c.files)]
  ELSE [n |-> None, files |-> c.files]

\* What main has set up when it enters the loop over the files.
Run(c, paths, n) == [kind |-> "ok", cli_with_limit |-> c, file_paths |-> paths, n |-> n]

NoRun == Run(BaseCli, <<>>, None)

\* A faulty variant: N replaces a --limit or --offset that was given.
main_prologue_NFirst(c) ==
  IF c.command \notin {"lint", "count", "stats", "cat", "head", "tail", "sample"}
  THEN ErrWith("Unknown command", c.command)
  ELSE IF c.files = <<>>
  THEN ErrWith("command requires at least one file", c.command)
  ELSE IF c.command \in {"lint", "count", "stats"}
  THEN Run(c, c.files, None)
  ELSE LET p     == parse_n_and_files(c)
           n_str == IF IsSome(p.n) THEN Unwrap(p.n) ELSE DefaultN
           n_val == parse_usize(n_str)
       IN  CASE c.command = "head" ->
                  IF IsErr(n_val) THEN ErrWith("Invalid number for head", n_str)
                  ELSE Run([c EXCEPT !.limit = Some(FromInt(n_val.v))], p.files, p.n)
             [] c.command = "tail" ->
                  IF IsErr(n_val) THEN ErrWith("Invalid number for tail", n_str)
                  ELSE Run([c EXCEPT !.offset = Some(-n_val.v)], p.files, p.n)
             [] OTHER -> Run(c, p.files, p.n)

\* main.rs:118-235: the dispatch on the command and the set-up before the loop.
main_prologue(c) ==
  IF c.command \notin {"lint", "count", "stats", "cat", "head", "tail", "sample"}
  THEN ErrWith("Unknown command", c.command)
  ELSE IF c.files = <<>>
  THEN ErrWith("command requires at least one file", c.command)
  ELSE IF c.command \in {"lint", "count", "stats"}
  THEN Run(c, c.files, None)
  ELSE LET p     == parse_n_and_files(c)
           n_str == IF IsSome(p.n) THEN Unwrap(p.n) ELSE DefaultN
           n_val == parse_usize(n_str)
       IN  CASE c.command = "head" ->
                  IF IsErr(n_val) THEN ErrWith("Invalid number for head", n_str)
                  ELSE Run(IF IsSome(c.limit) THEN c
                           ELSE [c EXCEPT !.limit = Some(FromInt(n_val.v))],
                           p.files, p.n)
             [] c.command = "tail" ->
                  IF IsErr(n_val) THEN ErrWith("Invalid number for tail", n_str)
                  ELSE Run(IF IsSome(c.offset) THEN c
                           ELSE [c EXCEPT !.offset = Some(-n_val.v)],
                           p.files, p.n)
             [] OTHER -> Run(c, p.files, p.n)

---------------------------------------------------------------------------
(* The state machine of one invocation                                     *)

VARIABLES
  cli,      \* the parsed command line
  disk,     \* the input files: path -> [enc, df]
  tty,      \* whether stdout is a terminal
  pc,       \* "start", "loop", "done" (Ok) or "failed" (Err)
  idx,      \* how many files the loop has completed
  stdout,   \* what was printed, in order
  written,  \* the output file as last written, if any
  err,      \* the error main returned, if any
  run,      \* cli_with_limit, file_paths and n
  probe,    \* values computed while processing the last file
  log       \* per file opened so far: its path and what processing it gave

vars == <<cli, disk, tty, pc, idx, stdout, written, err, run, probe, log>>

\* The state before main runs, for each given pair of a command line and a
\* disk, stdout being a terminal or not.
InitOn(inputs, ttys) ==
  /\ \E in \in inputs : cli = in[1] /\ disk = in[2]
  /\ tty \in ttys
  /\ pc = "start"
  /\ idx = 0
  /\ stdout = <<>>
  /\ written = None
  /\ err = None
  /\ run = NoRun
  /\ probe = NoProbe
  /\ log = <<>>

\* The same with stdout redirected.
InitWith(inputs) == InitOn(inputs, {FALSE})

\* main up to the loop over the files.
Start ==
  /\ pc = "start"
  /\ LET r == main_prologue(cli)
     IN  /\ run' = (IF IsErr(r) THEN run ELSE r)
         /\ err' = (IF IsErr(r) THEN Some(r) ELSE None)
         /\ pc' = (IF IsErr(r) THEN "failed"
                   ELSE IF r.file_paths = <<>> THEN "done" ELSE "loop")
  /\ UNCHANGED <<cli, disk, tty, idx, stdout, written, probe, log>>

\* The separator lines of a run over several files.
Separators(paths, i) ==
  IF Len(paths) > 1
  THEN (IF i > 0 THEN <<[kind |-> "blank"]>> ELSE <<>>)
       \o <<[kind |-> "header", path |-> paths[i + 1]]>>
  ELSE <<>>

\* A faulty variant: a failing file is skipped and the loop goes on.
StepWith_KeepGoing(before, o) ==
  /\ stdout' = stdout \o before \o o.out
  /\ written' = (IF IsSome(o.file) THEN o.file ELSE written)
  /\ probe' = o.probe
  /\ err' = o.err
  /\ idx' = idx + 1
  /\ pc' = (IF idx + 1 = Len(run.file_paths) THEN "done" ELSE "loop")
  /\ log' = Append(log, [path |-> run.file_paths[idx + 1], err |-> o.err,
                         out |-> o.out, file |-> o.file])
  /\ UNCHANGED <<cli, disk, tty, run>>

\* A faulty variant: an output file that exists is left as it is.
StepWith_KeepFirstOutput(before, o) ==
  /\ stdout' = stdout \o before \o o.out
  /\ written' = (IF IsSome(written) THEN written ELSE o.file)
  /\ probe' = o.probe
  /\ err' = o.err
  /\ idx' = (IF IsSome(o.err) THEN idx ELSE idx + 1)
  /\ pc' = (IF IsSome(o.err) THEN "failed"
            ELSE IF idx + 1 = Len(run.file_paths) THEN "done" ELSE "loop")
  /\ log' = Append(log, [path |-> run.file_paths[idx + 1], err |-> o.err,
                         out |-> o.out, file |-> o.file])
  /\ UNCHANGED <<cli, disk, tty, run>>

\* One iteration of a loop over the files: the lines printed before the file
\* is opened, then the outcome o of processing it.
StepWith(before, o) ==
  /\ stdout' = stdout \o before \o o.out
  /\ written' = (IF IsSome(o.file) THEN o.file ELSE written)
  /\ probe' = o.probe
  /\ err' = o.err
  /\ idx' = (IF IsSome(o.err) THEN idx ELSE idx + 1)
  /\ pc' = (IF IsSome(o.err) THEN "failed"
            ELSE IF idx + 1 = Len(run.file_paths) THEN "done" ELSE "loop")
  /\ log' = Append(log, [path |-> run.file_paths[idx + 1], err |-> o.err,
                         out |-> o.out, file |-> o.file])
  /\ UNCHANGED <<cli, disk, tty, run>>

\* One iteration of a loop that prints the separators (lint, stats, cat ...).
Step(o) == StepWith(Separators(run.file_paths, idx), o)

\* A faulty variant: the files are taken from the last to the first.
CatFile_LastFirst ==
  /\ pc = "loop"
  /\ cli.command \in {"cat", "head", "tail", "sample"}
  /\ \E o \in cat_file(cli, run.cli_with_limit, run.n,
                       run.file_paths[Len(run.file_paths) - idx], disk, tty) :
       Step(o)

\* cat / head / tail / sample: the next file.
CatFile ==
  /\ pc = "loop"
  /\ cli.command \in {"cat", "head", "tail", "sample"}
  /\ \E o \in cat_file(cli, run.cli_with_limit, run.n, run.file_paths[idx + 1], disk, tty) :
       Step(o)

\* lint: the next file.
LintFile ==
  /\ pc = "loop"
  /\ cli.command = "lint"
  /\ \E o \in lint_file(cli, run.file_paths[idx + 1], disk) : Step(o)

\* stats: the next file.
StatsFile ==
  /\ pc = "loop"
  /\ cli.command = "stats"
  /\ \E o \in stats_file(cli, run.file_paths[idx + 1], disk, tty) : Step(o)

\* count: the next file; count prints no separators.
CountFile ==
  /\ pc = "loop"
  /\ cli.command = "count"
  /\ \E o \in count_file(cli, run.file_paths[idx + 1], disk) : StepWith(<<>>, o)

\* Reading back the file a finished run wrote, as the tests do
\* (main.rs:1836-1841): read_to_lazyframe on the output path, then collect.
ReadBack ==
  /\ pc = "done"
  /\ IsSome(written)
  /\ LET w   == Unwrap(written)
         d   == (w.path :> [enc |-> w.enc, df |-> w.df]) @@ disk
         lf  == read_to_lazyframe(w.path, d)
         dfs == IF IsErr(lf) THEN {lf} ELSE Collect(lf)
     IN  \E verify_df \in dfs :
           /\ stdout' = (IF IsErr(verify_df) THEN stdout
                         ELSE Append(stdout, [kind |-> "df", df |-> verify_df,
                                              pretty |-> FALSE]))
           /\ err' = (IF IsErr(verify_df) THEN Some(verify_df) ELSE None)
           /\ pc' = (IF IsErr(verify_df) THEN "unreadable" ELSE "verified")
  /\ log' = Append(log, [path |-> Unwrap(written).path, err |-> err', out |-> <<>>,
                         file |-> None])
  /\ UNCHANGED <<cli, disk, tty, idx, written, run, probe>>

\* The eager routine on the file of a finished stats run, as the tests call
\* it (main.rs:1949-1978); its report is kept in the log.
StatsTest ==
  /\ pc = "done"
  /\ cli.command = "stats"
  /\ \E stats_df \in stats_test(cli, read_and_transform(run.file_paths[1], disk, cli)) :
       /\ err' = (IF IsErr(stats_df) THEN Some(stats_df) ELSE None)
       /\ pc' = (IF IsErr(stats_df) THEN "unreadable" ELSE "verified")
       /\ log' = Append(log, [path |-> run.file_paths[1], err |-> err',
                              out |-> IF IsErr(stats_df) THEN <<>>
                                      ELSE <<[kind |-> "df", df |-> stats_df,
                                              pretty |-> FALSE]>>,
                              file |-> None])
  /\ UNCHANGED <<cli, disk, tty, idx, stdout, written, run, probe>>

---------------------------------------------------------------------------
(* Inputs of the specifications                                            *)

FileA == <<"a", ".", "c", "s", "v">>

FileBig == <<"b", ".", "p", "q">>

Schema2 == <<[name |-> "name", dtype |-> "str"], [name |-> "age", dtype |-> "int"]>>

SeqsUpTo(S, n) == UNION {[1..k -> S] : k \in 0..n}

OneFile(path, enc, df) == path :> [enc |-> enc, df |-> df]

\* Tables without nulls: two names that differ in case, two ages.
PlainRows == {[name |-> StrV(s), age |-> IntV(a)] : s \in {"a", "B"}, a \in {1, 2}}

PlainDisks ==
  {OneFile(FileA, "csv", Frame(Schema2, rows)) : rows \in SeqsUpTo(PlainRows, MaxRows)}

\* The sort options: keys, reverse, ignore_case.
SortChoices ==
  {<<<<>>, FALSE, FALSE>>, <<<<"name">>, FALSE, FALSE>>, <<<<"name">>, TRUE, TRUE>>,
   <<<<"age", "name">>, TRUE, FALSE>>}

\* The dedup options: unique, unique_on.
UniqueChoices == {<<FALSE, None>>, <<TRUE, None>>, <<FALSE, Some(<<"name">>)>>}

\* The pagination options: limit, offset.
SliceChoices ==
  {<<None, None>>, <<Some(FromInt(1)), None>>, <<None, Some(-1)>>,
   <<Some(FromInt(1)), Some(1)>>}

PipeClis ==
  {[BaseCli EXCEPT !.files = <<FileA>>, !.filter = f, !.select = sel, !.drop = d,
                   !.sort_keys = so[1], !.reverse = so[2], !.ignore_case = so[3],
                   !.unique = u[1], !.unique_on = u[2],
                   !.limit = sl[1], !.offset = sl[2]] :
     f \in {None, Some("age > 1")},
     sel \in {None, Some(<<"name">>), Some(<<"age", "name">>)},
     d \in {None, Some(<<"age">>)},
     so \in SortChoices, u \in UniqueChoices, sl \in SliceChoices}

InitPipe == InitWith(PipeClis \X PlainDisks)

NextCat == Start \/ CatFile

\* cat over small tables with every combination of the transformation options.
SpecPipe == InitPipe /\ [][NextCat]_vars

\* Tables whose rows are all different: row j holds j.
SliceDisks == {OneFile(FileA, "csv", RangeFrame(0, r)) : r \in 0..MaxRows}

SliceClis ==
  {[BaseCli EXCEPT !.files = <<FileA>>, !.limit = l, !.offset = o] :
     l \in {None} \cup {Some(FromInt(k)) : k \in 0..MaxSlice}
            \cup {Some(WidePow2(IdxBits)), Some(WideSucc(WidePow2(IdxBits)))},
     o \in {None} \cup {Some(k) : k \in (-MaxSlice)..MaxSlice}}

InitSlice == InitWith(SliceClis \X SliceDisks)

\* cat with every offset / limit combination.
SpecSlice == InitSlice /\ [][NextCat]_vars

\* The numerals given as N.
NumeralsSmall ==
  {<<"0">>, <<"1">>, <<"2">>, <<"0", ".", "5">>, <<".", "2", "5">>, <<"1", ".", "5">>}

NumeralsBig ==
  {<<"0">>, <<"2">>, <<"1", "0", "0">>, <<"1", "0", "1">>, <<"1", "5", "0">>,
   <<"2", "0", "0", "0", "0", "0">>, <<"0", ".", "0", "0", "1">>,
   <<"0", ".", "0", "0", "0", "5">>}

\* Row counts around the window's floor and beyond it.
BigCounts == {0, 2, WindowFloor - 1, WindowFloor, WindowFloor + 1, 150000, 200000}

BigDisks == {OneFile(FileBig, "parquet", RangeFrame(0, r)) : r \in BigCounts}

SampleClisBig ==
  {[BaseCli EXCEPT !.command = "sample", !.files = <<n, FileBig>>, !.limit = l] :
     n \in NumeralsBig, l \in {None, Some(FromInt(150000))}}

SampleClisSmall ==
  {[BaseCli EXCEPT !.command = "sample", !.files = fs, !.filter = f,
                   !.sort_keys = so[1], !.reverse = so[2], !.ignore_case = so[3],
                   !.limit = l] :
     fs \in {<<FileA>>} \cup {<<n, FileA>> : n \in NumeralsSmall},
     f \in {None, Some("age > 1")},
     so \in SortChoices, l \in {None, Some(FromInt(2))}}

InitSample ==
  InitWith((SampleClisBig \X BigDisks) \cup (SampleClisSmall \X PlainDisks))

\* sample over small tables (with sort keys) and over large ones.
SpecSample == InitSample /\ [][NextCat]_vars

\* Rows with nulls.
NullRows == {[name |-> n, age |-> a] : n \in {StrV("a"), Null}, a \in {IntV(1), Null}}

\* A long table: the pattern repeated up to the length.
Repeat(pattern, len) == [i \in 1..len |-> pattern[((i - 1) % Len(pattern)) + 1]]

\* Lengths around the cap of the null-row extraction.
LongLens == {NullRowsCap - 1, NullRowsCap, NullRowsCap + 1, NullRowsCap + NullRowsCap}

\* Five rows, two of them repeats of an earlier row.
FiveRows ==
  <<[name |-> StrV("A"), age |-> IntV(1)], [name |-> StrV("B"), age |-> IntV(2)],
    [name |-> StrV("A"), age |-> IntV(1)], [name |-> StrV("C"), age |-> IntV(3)],
    [name |-> StrV("B"), age |-> IntV(2)]>>

\* Ten rows, three of them without an age.
TenRows ==
  [i \in 1..10 |-> [name |-> StrV("a"), age |-> IF i <= 3 THEN Null ELSE IntV(1)]]

LintTables ==
  SeqsUpTo(NullRows, MaxRows)
    \cup {Repeat(p, len) : p \in [1..2 -> NullRows], len \in LongLens}
    \cup {FiveRows, TenRows}

LintDisks == {OneFile(FileA, "csv", Frame(Schema2, rows)) : rows \in LintTables}

\* show_nulls, all
NullRowChoices == {<<FALSE, FALSE>>, <<TRUE, FALSE>>, <<TRUE, TRUE>>}

LintClis ==
  {[BaseCli EXCEPT !.command = "lint", !.files = <<FileA>>, !.select = sel, !.drop = d,
                   !.unique = u[1], !.unique_on = u[2],
                   !.show_nulls = sn[1], !.all = sn[2], !.show_schema = ss] :
     sel \in {None, Some(<<"name">>), Some(<<"name", "age">>)},
     d \in {None, Some(<<"age">>)},
     u \in UniqueChoices, sn \in NullRowChoices, ss \in BOOLEAN}

InitLint == InitWith(LintClis \X LintDisks)

NextLint == Start \/ LintFile

\* lint over tables with nulls and repeated rows, short and long.
SpecLint == InitLint /\ [][NextLint]_vars

Schema3 ==
  <<[name |-> "name", dtype |-> "str"], [name |-> "age", dtype |-> "int"],
    [name |-> "score", dtype |-> "int"]>>

StatsRows ==
  {[name |-> StrV("a"), age |-> a, score |-> sc] :
     a \in {IntV(1), IntV(2), Null}, sc \in {IntV(5), Null}}

\* One numeric column with the values 1, 2, 3, 4, 5.
FiveValues == [i \in 1..5 |-> [name |-> StrV("a"), age |-> IntV(i), score |-> Null]]

StatsDisks ==
  {OneFile(FileA, "csv", Frame(Schema3, rows)) :
     rows \in SeqsUpTo(StatsRows, MaxRows) \cup {FiveValues}}

FileOut == <<"o", ".", "c", "s", "v">>

StatsClis ==
  {[BaseCli EXCEPT !.command = "stats", !.files = <<FileA>>, !.filter = f,
                   !.select = sel, !.output = out] :
     f \in {None, Some("age > 1")},
     sel \in {None, Some(<<"name">>), Some(<<"age">>), Some(<<"score", "age">>)},
     out \in {None, Some(FileOut)}}

InitStats == InitWith(StatsClis \X StatsDisks)

NextStats == Start \/ StatsFile

\* stats over small tables with two numeric columns.
SpecStats == InitStats /\ [][NextStats]_vars

NextStatsTest == Start \/ StatsFile \/ StatsTest

\* stats, then the eager routine on the same table.
SpecStatsTest == InitStats /\ [][NextStatsTest]_vars

\* cat with a filter, a select list and a limit, the limit also beyond 2^32.
FilterSelectLimitClis ==
  {[BaseCli EXCEPT !.files = <<FileA>>, !.filter = Some(f), !.select = Some(sel),
                   !.limit = Some(l)] :
     f \in {"age > 1", "name = 'a'"},
     sel \in {<<"name">>, <<"age", "name">>, <<"name", "age">>},
     l \in {FromInt(k) : k \in 0..MaxSlice}
           \cup {WidePow2(IdxBits), WideSucc(WidePow2(IdxBits))}}

InitFilterSelectLimit == InitWith(FilterSelectLimitClis \X PlainDisks)

SpecFilterSelectLimit == InitFilterSelectLimit /\ [][NextCat]_vars

\* The extensions write_output_file and read_to_lazyframe know.
SupportedExts == {ExtCsv, ExtTxt, ExtTsv, ExtParquet, ExtPq, ExtJson, ExtJsonl, ExtNdjson}

OutPath(ext) == <<"o", ".">> \o ext

\* Output paths: one per supported extension, one unsupported, one without.
OutPaths == {OutPath(e) : e \in SupportedExts} \cup {OutPath(<<"x", "l", "s">>), <<"o">>}

\* sample with the default N (more than the rows of the table) returns the
\* table as it is and writes it with write_output_file.
RoundTripClis ==
  {[BaseCli EXCEPT !.command = "sample", !.files = <<FileA>>, !.output = Some(out)] :
     out \in OutPaths}

InitRoundTrip == InitWith(RoundTripClis \X PlainDisks)

NextRoundTrip == Start \/ CatFile \/ ReadBack

\* Write a table to a file of each format, then read the file back.
SpecRoundTrip == InitRoundTrip /\ [][NextRoundTrip]_vars

\* File names of every supported format, compressed ones, and names whose
\* format is unsupported or cannot be told.
FormatPaths ==
  {OutPath(e) : e \in SupportedExts}
    \cup {<<"a", ".", "c", "s", "v", ".", "g", "z">>, <<"a", ".", "j", "s", "o", "n", "l", ".", "z", "s", "t">>, <<"a", ".", "p", "q", ".", "z", "s", "t">>,
          <<"a", ".", "x", "l", "s">>, <<"a", ".", "x", "l", "s", ".", "g", "z">>, <<"a", ".", "g", "z">>,
          <<"a">>, <<".", "c", "s", "v">>, <<"a", ".", "C", "S", "V">>}

\* The file holds what a reader of its format expects (a compression suffix
\* on the name of an uncompressed file changes nothing), or is absent.
NoFiles == [p \in {} |-> p]

FormatDisks(path) ==
  LET format == DetectFormat(path)
      enc    == IF IsErr(format) \/ ReaderEncoding(format.v) = "unsupported" THEN "csv"
                ELSE ReaderEncoding(format.v)
  IN  {OneFile(path, enc, Frame(Schema2, rows)) : rows \in SeqsUpTo(PlainRows, MaxRows)}
        \cup {NoFiles}

InitFormats ==
  InitWith(UNION {{[BaseCli EXCEPT !.command = cmd, !.files = <<path>>] :
                     cmd \in {"count", "cat"}} \X FormatDisks(path) :
                  path \in FormatPaths})

NextFormats == Start \/ CatFile \/ CountFile

\* count (by count_shape) and cat (by read_to_lazyframe) on one file name of
\* each kind, present or absent.
SpecFormats == InitFormats /\ [][NextFormats]_vars

\* Most files of one command line.
MaxFiles == 2

FileB == <<"b", ".", "c", "s", "v">>

FileMissing == <<"m", ".", "c", "s", "v">>

\* a.csv with 0..MaxRows rows, b.csv with two other rows, m.csv absent.
FilesDisks ==
  {(FileA :> [enc |-> "csv", df |-> RangeFrame(0, r)])
     @@ (FileB :> [enc |-> "csv", df |-> RangeFrame(10, 12)]) : r \in 0..MaxRows}

FileLists == SeqsUpTo({FileA, FileB, FileMissing}, MaxFiles) \ {<<>>}

\* Every command over one or several files, for the commands that can write
\* with every kind of output path.
FilesClis ==
  {[BaseCli EXCEPT !.command = cmd, !.files = fs, !.output = out] :
     cmd \in {"cat", "head", "tail", "sample", "stats"}, fs \in FileLists,
     out \in {None} \cup {Some(o) : o \in OutPaths}}
    \cup {[BaseCli EXCEPT !.command = cmd, !.files = fs, !.unique = u] :
            cmd \in {"lint", "count"}, fs \in FileLists, u \in BOOLEAN}

InitFiles == InitOn(FilesClis \X FilesDisks, BOOLEAN)

NextFiles == Start \/ CatFile \/ LintFile \/ StatsFile \/ CountFile

\* Every command over several files, some of them absent.
SpecFiles == InitFiles /\ [][NextFiles]_vars

\* count with no option, with each option alone, and with some together.
CountClis ==
  LET c0 == [BaseCli EXCEPT !.command = "count", !.files = <<FileA>>]
  IN  {c0,
       [c0 EXCEPT !.filter = Some("age > 1")],
       [c0 EXCEPT !.select = Some(<<"name">>)],
       [c0 EXCEPT !.drop = Some(<<"age">>)],
       [c0 EXCEPT !.sort_keys = <<"age">>],
       [c0 EXCEPT !.unique = TRUE],
       [c0 EXCEPT !.unique_on = Some(<<"name">>)],
       [c0 EXCEPT !.limit = Some(FromInt(1))],
       [c0 EXCEPT !.offset = Some(1)],
       [c0 EXCEPT !.show_nulls = TRUE],
       [c0 EXCEPT !.show_schema = TRUE],
       [c0 EXCEPT !.reverse = TRUE, !.ignore_case = TRUE, !.all = TRUE],
       [c0 EXCEPT !.filter = Some("age > 1"), !.select = Some(<<"name">>),
                  !.unique = TRUE, !.limit = Some(FromInt(1))],
       [c0 EXCEPT !.show_nulls = TRUE, !.unique = TRUE]}

InitCount == InitWith(CountClis \X PlainDisks)

NextCount == Start \/ CountFile

SpecCount == InitCount /\ [][NextCount]_vars

\* The N of head and tail: absent, or a count below, at or above the rows.
HeadTailNumerals == {<<"0">>, <<"1">>, <<"2">>, <<"4">>, <<"1", "1">>}

\* Tables around the default count: row j holds j.
LongDisks ==
  {OneFile(FileA, "csv", RangeFrame(0, r)) : r \in (0..MaxRows) \cup {9, 10, 11, 12}}

HeadTailPositionals == {<<FileA>>} \cup {<<n, FileA>> : n \in HeadTailNumerals}

HeadTailClisLong ==
  {[BaseCli EXCEPT !.command = cmd, !.files = fs] :
     cmd \in {"head", "tail", "sample"}, fs \in HeadTailPositionals}

HeadTailClisSmall ==
  {[BaseCli EXCEPT !.command = cmd, !.files = fs, !.filter = f,
                   !.sort_keys = so[1], !.reverse = so[2], !.ignore_case = so[3]] :
     cmd \in {"head", "tail"}, fs \in HeadTailPositionals,
     f \in {None, Some("age > 1")}, so \in SortChoices}

InitHeadTail ==
  InitWith((HeadTailClisLong \X LongDisks) \cup (HeadTailClisSmall \X PlainDisks))

\* head, tail and sample with and without N, no --limit and no --offset.
SpecHeadTail == InitHeadTail /\ [][NextCat]_vars

\* What may stand first on the command line: numerals of every form f64
\* parsing accepts, near misses, and file names.
FirstArgs ==
  {<<"5">>, <<"1", "0">>, <<"0", ".", "5">>, <<".", "5">>, <<"5", ".">>, <<"-", "3">>,
   <<"+", "2">>, <<"1", "e", "2">>, <<"2", "E", "-", "1">>, <<"n", "a", "n">>,
   <<"N", "a", "N">>, <<"i", "n", "f">>, <<"-", "i", "n", "f">>,
   <<"i", "n", "f", "i", "n", "i", "t", "y">>,
   <<>>, <<".">>, <<"-">>, <<"e", "5">>, <<"1", "e">>, <<"1", ".", "2", ".", "3">>,
   <<"x", "5">>, <<"5", "x">>, <<"5", ".", "c", "s", "v">>, FileA, FileB}

RestArgs == {FileA, FileB, <<"5">>}

PositionalLists ==
  {<<x>> : x \in FirstArgs}
    \cup {<<x, y>> : x \in FirstArgs, y \in RestArgs}
    \cup {<<x, y, z>> : x \in FirstArgs, y \in RestArgs, z \in RestArgs}

ParseNClis ==
  {[BaseCli EXCEPT !.command = cmd, !.files = fs] :
     cmd \in {"head", "tail", "sample"}, fs \in PositionalLists}

InitParseN == InitWith(ParseNClis \X FilesDisks)

\* head, tail and sample over every list of positional arguments.
SpecParseN == InitParseN /\ [][NextCat]_vars

\* Predicates the engine's parser takes and predicates it rejects.
GoodFilter == "age > 1"

BadFilters == {"age >", "name = 'a", ""}

\* Every command over one or two files with a predicate, alone or with other
\* options.
FilterClis ==
  {[BaseCli EXCEPT !.command = cmd, !.files = fs, !.filter = Some(f), !.select = sel,
                   !.sort_keys = so, !.unique = u, !.limit = l, !.output = out] :
     cmd \in {"lint", "count", "stats", "cat", "head", "tail", "sample"},
     fs \in FileLists, f \in BadFilters \cup {GoodFilter},
     sel \in {None, Some(<<"id">>)}, so \in {<<>>, <<"id">>}, u \in BOOLEAN,
     l \in {None, Some(FromInt(1))}, out \in {None, Some(FileOut)}}

InitFilter == InitWith(FilterClis \X FilesDisks)

\* Runs whose predicate the parser may reject.
SpecFilter == InitFilter /\ [][NextFiles]_vars

\* Numerals the split takes as N: counts, fractions, and forms that are
\* neither.
GivenNumerals ==
  {<<"2">>, <<"+", "2">>, <<"0", ".", "5">>, <<"-", "3">>, <<"-", "0", ".", "5">>,
   <<"1", "e", "2">>, <<"2", ".", "5", "e", "1">>, <<"n", "a", "n">>, <<"i", "n", "f">>,
   <<"5", ".">>}

GivenNClis ==
  {[BaseCli EXCEPT !.command = cmd, !.files = <<n>> \o fs, !.output = out] :
     cmd \in {"head", "tail", "sample"}, n \in GivenNumerals,
     fs \in FileLists \cup {<<>>}, out \in {None, Some(FileOut)}}

InitGivenN == InitWith(GivenNClis \X FilesDisks)

\* head, tail and sample with an N of every form.
SpecGivenN == InitGivenN /\ [][NextCat]_vars

\* cat with the dedup flag, a dedup scope, both or neither, after a filter, a
\* projection and a sort.
DedupClis ==
  {[BaseCli EXCEPT !.files = <<FileA>>, !.filter = f, !.select = sel,
                   !.sort_keys = so[1], !.reverse = so[2], !.ignore_case = so[3],
                   !.unique = u, !.unique_on = on] :
     f \in {None, Some("age > 1")}, sel \in {None, Some(<<"age", "name">>)},
     so \in SortChoices, u \in BOOLEAN,
     on \in {None, Some(<<"name">>), Some(<<"age">>), Some(<<"name", "age">>)}}

InitDedup == InitWith(DedupClis \X PlainDisks)

SpecDedup == InitDedup /\ [][NextCat]_vars

\* cat with sort keys on the name, the age or both, either direction, with
\* and without case folding.
SortClis ==
  {[BaseCli EXCEPT !.files = <<FileA>>, !.sort_keys = keys, !.reverse = r,
                   !.ignore_case = i] :
     keys \in {<<"name">>, <<"age">>, <<"age", "name">>, <<"name", "age">>},
     r \in BOOLEAN, i \in BOOLEAN}

InitSort == InitWith(SortClis \X PlainDisks)

SpecSort == InitSort /\ [][NextCat]_vars

\* An N with nothing after it.
OnlyNumerals == {<<"5">>, <<"0", ".", "5">>}

\* Every command with no positional argument at all, with files, and for
\* head, tail and sample with N alone.
NoFileClis ==
  {[BaseCli EXCEPT !.command = cmd, !.files = fs] :
     cmd \in {"lint", "count", "stats", "cat", "head", "tail", "sample"},
     fs \in FileLists \cup {<<>>}}
    \cup {[BaseCli EXCEPT !.command = cmd, !.files = <<n>>] :
            cmd \in {"head", "tail", "sample"}, n \in OnlyNumerals}

InitNoFile == InitWith(NoFileClis \X FilesDisks)

\* Runs with and without input files.
SpecNoFile == InitNoFile /\ [][NextFiles]_vars

\* head and tail with and without N, --limit and --offset.
PrecedenceClis ==
  {[BaseCli EXCEPT !.command = cmd, !.files = n \o <<FileA>>, !.limit = l, !.offset = o] :
     cmd \in {"head", "tail"}, n \in {<<>>, <<<<"1">>>>, <<<<"2">>>>},
     l \in {None} \cup {Some(FromInt(k)) : k \in 0..MaxSlice},
     o \in {None} \cup {Some(k) : k \in (-MaxSlice)..MaxSlice}}

InitPrecedence == InitWith(PrecedenceClis \X SliceDisks)

SpecPrecedence == InitPrecedence /\ [][NextCat]_vars

---------------------------------------------------------------------------
(* Properties                                                              *)

\* The table of the only input file, and the table the run printed last.
Input == disk[run.file_paths[1]].df

Printed == stdout[Len(stdout)].df

DonePrinted == pc = "done" /\ stdout # <<>> /\ stdout[Len(stdout)].kind = "df"

StageRank(op) ==
  CASE op = "filter" -> 1 [] op = "select" -> 2 [] op = "drop" -> 3
    [] op = "sort" -> 4 [] op = "unique" -> 5 [] op = "slice" -> 6

\* The stages of the plan are in the order filter, select, drop, sort,
\* unique, slice, one for each option given and none for an absent one.
PlanInOrder(plan, c) ==
  /\ \A i, j \in DOMAIN plan : i < j => StageRank(plan[i].op) < StageRank(plan[j].op)
  /\ {plan[i].op : i \in DOMAIN plan} =
       {op \in {"filter", "select", "drop", "sort", "unique", "slice"} :
          CASE op = "filter" -> IsSome(c.filter)
            [] op = "select" -> IsSome(c.select)
            [] op = "drop"   -> IsSome(c.drop)
            [] op = "sort"   -> c.sort_keys # <<>>
            [] op = "unique" -> c.unique \/ IsSome(c.unique_on)
            [] op = "slice"  -> IsSome(c.limit) \/ IsSome(c.offset)}

\* The columns left by select and then drop, in order.
FinalCols(schema, c) ==
  LET sel == IF IsSome(c.select) THEN Unwrap(c.select) ELSE Names(schema)
  IN  IF IsSome(c.drop) THEN SelectSeq(sel, LAMBDA x : x \notin Range(Unwrap(c.drop)))
      ELSE sel

\* The rows of the input that pass the filter, read on ALL the input's
\* columns, then cut down to the final columns.
FilteredProjected(df, c) ==
  LET pass(r) == ~IsSome(c.filter) \/ EvalPred(sql_expr(Unwrap(c.filter)), r)
      kept    == SelectSeq(df.rows, pass)
      cols    == Range(FinalCols(df.schema, c))
  IN  [i \in DOMAIN kept |-> [x \in cols |-> kept[i][x]]]

\* C1: apply_transformations applies its stages in the fixed order filter,
\* select, drop, sort, dedup, slice.  Whatever the options, the plan it builds
\* lists the stages in that order; and the table a successful run prints is
\* the slice of the deduplicated rows of some sorted ordering of the projected
\* rows of the input rows that pass the filter, the filter being read on the
\* input's full schema (it may name a column the projection removes).
C1_StageOrder ==
  (pc \in {"done", "failed"} /\ idx + (IF pc = "failed" THEN 1 ELSE 0) > 0
      => PlanInOrder(probe.plan, cli))
  /\ (DonePrinted =>
        LET projected == FilteredProjected(Input, cli)
            schema    == Printed.schema
            sorted    == IF cli.sort_keys # <<>>
                         THEN SortedOrders(projected, cli.sort_keys, cli.reverse,
                                           cli.ignore_case)
                         ELSE {projected}
            subset    == IF IsSome(cli.unique_on) THEN Unwrap(cli.unique_on) ELSE <<>>
            dedup(r)  == IF cli.unique \/ IsSome(cli.unique_on)
                         THEN UniqueFrame(Frame(schema, r), subset) ELSE Frame(schema, r)
            off       == IF IsSome(cli.offset) THEN Unwrap(cli.offset) ELSE 0
            len       == IF IsSome(cli.limit) THEN AsIdxSize(Unwrap(cli.limit))
                         ELSE IdxSizeMax
        IN  /\ Names(schema) = FinalCols(Input.schema, cli)
            /\ \E r \in sorted : Printed = SliceFrame(dedup(r), off, len))

\* A run whose filter names a column that the projection removes, with a
\* sort, a dedup and a slice, and that prints a row.
C1_Witness ==
  /\ DonePrinted
  /\ cli.filter = Some("age > 1")
  /\ cli.select = Some(<<"name">>)
  /\ cli.sort_keys # <<>>
  /\ cli.unique
  /\ IsSome(cli.limit)
  /\ Len(Input.rows) = MaxRows
  /\ Height(Printed) = 1

\* The number of rows the claim gives for a table of r rows.
RemainingAfter(o, r) == IF o >= 0 THEN Max(r - o, 0) ELSE Min(-o, r)

ClaimedSliceCount(c, r) ==
  IF IsSome(c.offset)
  THEN (IF IsSome(c.limit)
        THEN WideMin(Unwrap(c.limit), RemainingAfter(Unwrap(c.offset), r))
        ELSE RemainingAfter(Unwrap(c.offset), r))
  ELSE (IF IsSome(c.limit) THEN WideMin(Unwrap(c.limit), r) ELSE r)

\* C2: the Slice stage yields exactly min(limit, remaining_after_offset) rows:
\* limit alone min(limit, R), an offset o >= 0 alone max(R - o, 0), both
\* min(limit, remaining), a negative offset -k leaving the last min(k, R) rows.
C2_SliceCount ==
  DonePrinted => Height(Printed) = ClaimedSliceCount(cli, Height(Input))

\* The results the pipeline of the run may give for the only input file.
PipelineResults == Collect(apply_transformations(Lazy(Input), run.cli_with_limit))

\* The sampler ran to its end.
SamplerRan == pc = "done" /\ cli.command = "sample" /\ IsSome(probe.sampled)

\* C3: apply_random_sample_streaming returns exactly min(n, total_rows) rows:
\* the full result unchanged when n >= total_rows, an empty result when
\* n = 0, and exactly n rows when 0 < n < total_rows.
C3_SampleCount ==
  SamplerRan =>
    LET n          == Unwrap(probe.n)
        sampled    == Unwrap(probe.sampled)
        total_rows == Height(CHOOSE r \in PipelineResults : TRUE)
    IN  /\ Height(sampled) = Min(n, total_rows)
        /\ n >= total_rows => sampled \in PipelineResults
        /\ n = 0 => Height(sampled) = 0
        /\ (0 < n /\ n < total_rows) => Height(sampled) = n

\* Each of the three cases on a table of more rows than the window's floor.
C3_Witness ==
  /\ SamplerRan
  /\ Unwrap(probe.n) = 150
  /\ Unwrap(probe.row_count) = 200000
  /\ Height(Unwrap(probe.sampled)) = 150

\* The window the claim gives.
ClaimedWindow(n, total_rows) ==
  LET wanted == IF n * WindowFactor < WindowFloor THEN WindowFloor ELSE n * WindowFactor
  IN  IF wanted > total_rows THEN total_rows ELSE wanted

\* C4: whenever the sampler samples (n < total_rows), the window is
\* clamp(n * 1000, 100000, total_rows), it is at most total_rows and at least
\* the sample size, and the rows returned are rows of the first `window` rows
\* of the pipeline's output, taken at pairwise different positions.
C4_Window ==
  (SamplerRan /\ Unwrap(probe.n) < Unwrap(probe.row_count)) =>
    LET n          == Unwrap(probe.n)
        sampled    == Unwrap(probe.sampled)
        total_rows == Height(CHOOSE r \in PipelineResults : TRUE)
        window     == Unwrap(probe.window)
        ix         == Unwrap(probe.idx)
    IN  /\ window = ClaimedWindow(n, total_rows)
        /\ window <= total_rows
        /\ window >= Height(sampled)
        /\ Injective(ix)
        /\ Len(ix) = Height(sampled)
        /\ \A i \in DOMAIN ix : 0 <= ix[i] /\ ix[i] < window
        /\ \E r \in PipelineResults :
             \A i \in DOMAIN ix : RowAt(sampled, i - 1) = RowAt(r, ix[i])

\* A sample whose window is n * 1000, smaller than the table, and whose last
\* row is the last row of the window.
C4_Witness ==
  /\ SamplerRan
  /\ Unwrap(probe.n) = 101
  /\ Unwrap(probe.row_count) = 150000
  /\ probe.window = Some(101000)
  /\ RowAt(Unwrap(probe.sampled), 0) = [id |-> IntV(100999)]

\* The fractions given as N: numerator and denominator.
FractionOf(n_str) ==
  CASE n_str = <<"0", ".", "5">>                -> <<1, 2>>
    [] n_str = <<".", "2", "5">>                -> <<1, 4>>
    [] n_str = <<"1", ".", "5">>                -> <<3, 2>>
    [] n_str = <<"0", ".", "0", "0", "1">>      -> <<1, 1000>>
    [] n_str = <<"0", ".", "0", "0", "0", "5">> -> <<1, 2000>>

GivenFraction == IsSome(run.n) /\ Contains(Unwrap(run.n), ".")

\* C5: given a fraction f, sample takes n = round(total_rows * f), to the
\* nearest integer (a half rounds up), total_rows being the row count of the
\* pipeline's output (after the slice, before sampling); the sampler is run
\* with that n.
C5_FractionRounded ==
  (SamplerRan /\ GivenFraction) =>
    LET f          == FractionOf(Unwrap(run.n))
        n          == Unwrap(probe.n)
        total_rows == Height(CHOOSE r \in PipelineResults : TRUE)
    IN  /\ 2 * f[2] * n <= 2 * total_rows * f[1] + f[2]
        /\ 2 * total_rows * f[1] + f[2] < 2 * f[2] * (n + 1)
        /\ Height(Unwrap(probe.sampled)) = Min(n, total_rows)

\* Half of the two rows the limit leaves of three is one row (half of the
\* three would be 1.5, two rows).
C5_Witness ==
  /\ SamplerRan
  /\ run.n = Some(<<"0", ".", "5">>)
  /\ Height(Input) = 3
  /\ ~IsSome(cli.filter)
  /\ cli.limit = Some(FromInt(2))
  /\ Unwrap(probe.n) = 1
  /\ Height(Printed) = 1

\* C6: with sort keys, the rows sample emits are sorted on the keys in the
\* requested direction and with the requested case folding, whatever the
\* sample size; without sort keys they are emitted in the order of the draw.
C6_SampleSorted ==
  (SamplerRan /\ DonePrinted) =>
    IF cli.sort_keys # <<>>
    THEN IsSorted(Rows(Printed), cli.sort_keys, cli.reverse, cli.ignore_case)
    ELSE Printed = Unwrap(probe.sampled)


\* The table left by the transformations of the command line.
Transformed == CHOOSE o \in Collect(apply_transformations(Lazy(Input), cli)) : TRUE

\* The table the transformations leave when no deduplication is asked for.
Undeduped ==
  CHOOSE o \in Collect(apply_transformations(
                         Lazy(Input), [cli EXCEPT !.unique = FALSE, !.unique_on = None])) :
    TRUE

LinesOf(kinds) == SelectSeq(stdout, LAMBDA l : l.kind \in kinds)

LintDone == cli.command = "lint" /\ pc = "done"

\* C7: lint with --unique or --unique-on reports
\* duplicate_count = total_rows - unique_count, total_rows being the number of
\* rows of the input and unique_count the number of rows that first-occurrence
\* dedup (over all columns, or over the scope) leaves of them.
C7_DuplicateCount ==
  (LintDone /\ (cli.unique \/ IsSome(cli.unique_on))) =>
    LET lines == LinesOf({"duplicates", "no_duplicates"})
        scope == IF IsSome(cli.unique_on) THEN Unwrap(cli.unique_on) ELSE <<>>
        count == IF lines[1].kind = "duplicates" THEN lines[1].count ELSE 0
    IN  /\ Len(lines) = 1
        /\ count = Height(Undeduped) - Height(UniqueFrame(Undeduped, scope))

\* The null-scan lines a table calls for: one per column with a null, in
\* schema order.
NullColumns(df) ==
  SelectSeq(Names(df.schema),
            LAMBDA c : \E i \in 1..Height(df) : IsNull(RowAt(df, i - 1)[c]))

\* C8: the lint null scan reports a column iff it has at least one null, in
\* schema order, with its null count and the percentage
\* null_count / total_rows * 100 to two decimals; it prints the "no null
\* values" line iff no column has a null.
C8_NullScan ==
  LintDone =>
    LET lines == LinesOf({"nulls"})
        cols  == NullColumns(Transformed)
        total == Height(Transformed)
    IN  /\ [i \in DOMAIN lines |-> lines[i].col] = cols
        /\ \A i \in DOMAIN lines :
             /\ lines[i].null_count = NullCount(Transformed, cols[i])
             /\ 2 * Abs(lines[i].pct * total - lines[i].null_count * 10000) <= total
        /\ Len(LinesOf({"no_nulls"})) = (IF cols = <<>> THEN 1 ELSE 0)

\* Three nulls in ten rows: 30.00%.
C8_Witness ==
  /\ LintDone
  /\ Input.rows = TenRows
  /\ ~IsSome(cli.select)
  /\ LinesOf({"nulls"}) =
       <<[kind |-> "nulls", col |-> "age", null_count |-> 3, pct |-> 3000]>>

\* The columns the null-row extraction checks.
Checked == IF IsSome(cli.select) THEN Unwrap(cli.select) ELSE Names(Transformed.schema)

\* The rows of the transformed result with a null in a checked column.
Matching ==
  SelectSeq(Transformed.rows,
            LAMBDA r : \E c \in Range(Checked) \cap DOMAIN r : IsNull(r[c]))

ExtractionStarted == LinesOf({"null_rows_title"}) # <<>>

ExtractionCorrect ==
  /\ pc = "done"
  /\ stdout[Len(stdout)].kind = "df"
  /\ Printed.rows = (IF cli.all THEN Matching
                     ELSE SubSeq(Matching, 1, Min(NullRowsCap, Len(Matching))))

StatsDone == cli.command = "stats" /\ pc = "done"

\* The report of the run: written to the output file, or printed.
Report == IF IsSome(cli.output) THEN Unwrap(written).df ELSE Printed

\* The numeric columns of the transformed result, in schema order.
NumericCols ==
  SelectSeq(FinalCols(Input.schema, cli), LAMBDA c : DType(Input.schema, c) = "int")

\* C10: the report of compute_stats_lazy has exactly the 8 fields column,
\* count, null_count, mean, std, min, median, max in that order and exactly
\* one row per numeric column of the transformed result, in schema order; with
\* no numeric column it has those 8 fields and no row.
C10_StatsShape ==
  StatsDone =>
    /\ Names(Report.schema) =
         <<"column", "count", "null_count", "mean", "std", "min", "median", "max">>
    /\ [i \in 1..Height(Report) |-> Report.rows[i].column] =
         [i \in DOMAIN NumericCols |-> StrV(NumericCols[i])]
    /\ \A i \in 1..Height(Report) : DOMAIN Report.rows[i] = NameSet(Report.schema)

\* A table with rows but no numeric column: 8 fields, no row.
C10_Witness ==
  /\ StatsDone
  /\ Height(Input) > 0
  /\ NumericCols = <<>>
  /\ Width(Report) = 8
  /\ Height(Report) = 0

\* The sort keys and the dedup scope name columns that select and drop leave.
OtherOptionsResolve ==
  LET final == Range(FinalCols(Input.schema, cli))
  IN  /\ Range(cli.sort_keys) \subseteq final
      /\ (IsSome(cli.unique_on) => Range(Unwrap(cli.unique_on)) \subseteq final)

\* C11: with both select and drop, select is applied first and drop second:
\* the run succeeds whether or not the dropped column was selected, and the
\* schema of its result is the selected columns minus the dropped ones, in
\* selection order.
C11_SelectThenDrop ==
  (/\ cli.command = "cat"
   /\ pc \in {"done", "failed"}
   /\ IsSome(cli.select) /\ IsSome(cli.drop)
   /\ OtherOptionsResolve) =>
    /\ DonePrinted
    /\ Names(Printed.schema) = FinalCols(Input.schema, cli)

\* C12: with a filter, a select list and a limit L, the result has exactly the
\* selected columns and min(L, number of rows passing the filter) rows, and
\* its rows are the first rows of the source that pass the filter, in source
\* order.
C12_FilterSelectLimit ==
  (/\ cli.command = "cat"
   /\ pc \in {"done", "failed"}
   /\ IsSome(cli.filter) /\ IsSome(cli.select) /\ IsSome(cli.limit)
   /\ ~IsSome(cli.drop) /\ cli.sort_keys = <<>> /\ ~cli.unique
   /\ ~IsSome(cli.unique_on) /\ ~IsSome(cli.offset)) =>
    LET matching == FilteredProjected(Input, cli)
        count    == WideMin(Unwrap(cli.limit), Len(matching))
    IN  /\ DonePrinted
        /\ Names(Printed.schema) = Unwrap(cli.select)
        /\ Printed.rows = SubSeq(matching, 1, count)

\* C13: for every table and every supported output extension, reading back
\* the file written by write_output_file yields a table with the same row
\* count and the same column count.
C13_RoundTrip ==
  (pc \in {"verified", "unreadable"} /\ Unwrap(written).via = "eager") =>
    /\ pc = "verified"
    /\ Height(Printed) = Height(Unwrap(written).df)
    /\ Width(Printed) = Width(Unwrap(written).df)

\* The format a file name stands for: its last extension, or the one before
\* it under a gz or zst suffix; None when there is none.
NamedFormat(path) ==
  LET last == Extension(path)
  IN  IF IsSome(last) /\ Unwrap(last) \in {ExtGz, ExtZst} THEN Extension(FileStem(path))
      ELSE last

NothingReturned == pc = "failed" /\ stdout = <<>> /\ written = None

\* C14: count_shape and read_to_lazyframe resolve the format from the last
\* extension, or from the inner one under gz / zst.  Without a (inner)
\* extension they fail with a missing-extension error, with a format outside
\* csv, txt, tsv, parquet, pq, json, jsonl, ndjson with 'Unsupported file
\* format'; an absent file of a supported format fails with an I/O error.  In
\* each case nothing is returned.
C14_FormatErrors ==
  (cli.command \in {"count", "cat"} /\ Len(log) = 1 /\ Len(cli.files) = 1
     /\ ~has_transformations(cli)) =>
    LET path   == cli.files[1]
        format == NamedFormat(path)
    IN  IF ~IsSome(format)
        THEN /\ NothingReturned
             /\ Unwrap(err).err \in {"Could not determine file extension",
                                     "Compressed file missing format extension"}
        ELSE IF Unwrap(format) \notin SupportedExts
        THEN /\ NothingReturned
             /\ Unwrap(err).err = "Unsupported file format"
             /\ Unwrap(err).arg = Unwrap(format)
        ELSE (path \notin DOMAIN disk) =>
               (NothingReturned /\ Unwrap(err).err = "Io")

\* count of an existing file whose inner extension, under gz, is unsupported.
C14_Witness ==
  /\ cli.command = "count"
  /\ cli.files = <<<<"a", ".", "x", "l", "s", ".", "g", "z">>>>
  /\ cli.files[1] \in DOMAIN disk
  /\ NothingReturned
  /\ Unwrap(err).err = "Unsupported file format"
  /\ Unwrap(err).arg = <<"x", "l", "s">>

\* The route an input file took: "sink", "materialise-write", "print-table",
\* "print-raw"; the set of the routes a log entry shows.
RoutesOf(entry) ==
  {r \in {"sink", "materialise-write", "print-table", "print-raw"} :
     CASE r = "sink" -> IsSome(entry.file) /\ Unwrap(entry.file).via = "sink"
       [] r = "materialise-write" -> IsSome(entry.file) /\ Unwrap(entry.file).via = "eager"
       [] r = "print-table" ->
            \E i \in DOMAIN entry.out : entry.out[i].kind = "df" /\ entry.out[i].pretty
       [] r = "print-raw" ->
            \E i \in DOMAIN entry.out : entry.out[i].kind = "df" /\ ~entry.out[i].pretty}

\* The route the decision table gives.
TableRoute ==
  IF ~IsSome(cli.output) THEN (IF tty THEN "print-table" ELSE "print-raw")
  ELSE IF cli.command # "sample"
          /\ Extension(Unwrap(cli.output)) \in {Some(ExtParquet), Some(ExtPq), Some(ExtCsv),
                                                Some(ExtTxt)}
  THEN "sink"
  ELSE "materialise-write"

\* C15: for cat / head / tail / sample every input file that is processed
\* takes exactly one route, the one of the decision table: with an output file
\* and no sampling, the streaming sink for parquet, pq, csv, txt and
\* materialise-then-write for tsv, json, jsonl, ndjson; a sample is always
\* materialised and written, never sunk; without output file the result is
\* printed, as a table on a terminal and as raw text otherwise.
C15_OutputRouting ==
  cli.command \in {"cat", "head", "tail", "sample"} =>
    \A k \in DOMAIN log :
      ~IsSome(log[k].err) => RoutesOf(log[k]) = {TableRoute}

\* Two files sunk to a parquet file one after the other.
C15_Witness ==
  /\ cli.command = "cat"
  /\ pc = "done"
  /\ Len(log) = 2
  /\ cli.output = Some(OutPath(ExtParquet))
  /\ RoutesOf(log[2]) = {"sink"}

\* C16: in every command over several files the first file whose processing
\* fails ends the run with that error: the failing file is the last one
\* opened, the run is then over (failed, with that file's error), and no retry
\* is made (no path is opened twice unless it was given twice).
C16_FailFast ==
  /\ \A k \in DOMAIN log :
       IsSome(log[k].err) =>
         /\ k = Len(log)
         /\ pc = "failed"
         /\ err = log[k].err
         /\ idx = k - 1
  /\ (pc = "failed" /\ log # <<>>) => IsSome(log[Len(log)].err)
  /\ [k \in DOMAIN log |-> log[k].path] = SubSeq(run.file_paths, 1, Len(log))

\* A run over two files that stopped at the first one, which is absent.
C16_Witness ==
  /\ pc = "failed"
  /\ run.file_paths = <<FileMissing, FileA>>
  /\ Len(log) = 1
  /\ Unwrap(err).err = "Io"
  /\ written = None

\* What an invocation given the file alone can produce for it.
SoloOutcomes(path) ==
  LET c == [cli EXCEPT !.files = <<path>>]
      r == main_prologue(c)
  IN  CASE cli.command = "lint"  -> lint_file(c, path, disk)
        [] cli.command = "count" -> count_file(c, path, disk)
        [] cli.command = "stats" -> stats_file(c, path, disk, tty)
        [] OTHER -> cat_file(c, r.cli_with_limit, r.n, path, disk, tty)

RECURSIVE PrintedUpTo(_)
\* What a run over several files has printed once k files were opened.
PrintedUpTo(k) ==
  IF k = 0 THEN <<>>
  ELSE PrintedUpTo(k - 1)
         \o (IF cli.command = "count" THEN <<>> ELSE Separators(run.file_paths, k - 1))
         \o log[k].out

\* C17: the files are processed strictly in argument order, one completed
\* before the next is opened, and what is produced for a file is what an
\* invocation given that file alone produces.
C17_Sequential ==
  /\ [k \in DOMAIN log |-> log[k].path] = SubSeq(run.file_paths, 1, Len(log))
  /\ stdout = PrintedUpTo(Len(log))
  /\ \A k \in DOMAIN log :
       \E o \in SoloOutcomes(log[k].path) :
         o.err = log[k].err /\ o.out = log[k].out /\ o.file = log[k].file

\* b.csv then a.csv, both printed, in that order.
C17_Witness ==
  /\ pc = "done"
  /\ cli.command = "cat"
  /\ run.file_paths = <<FileB, FileA>>
  /\ Height(Input) = 2 /\ Height(disk[FileA].df) = MaxRows
  /\ Len(stdout) = 5
  /\ stdout[2].df = disk[FileB].df
  /\ stdout[5].df = disk[FileA].df

\* One of filter, select, drop, sort keys, unique, unique-on, limit, offset.
TransformationRequested ==
  \/ IsSome(cli.filter) \/ IsSome(cli.select) \/ IsSome(cli.drop)
  \/ cli.sort_keys # <<>> \/ cli.unique \/ IsSome(cli.unique_on)
  \/ IsSome(cli.limit) \/ IsSome(cli.offset)

\* C18: count takes the metadata path (count_shape, no pipeline) exactly when
\* none of filter, select, drop, sort keys, unique, unique-on, limit, offset
\* is set; otherwise it builds and runs the pipeline and reports the rows and
\* columns of its output.
C18_CountPath ==
  (cli.command = "count" /\ pc = "done") =>
    LET line == stdout[Len(stdout)]
    IN  IF TransformationRequested
        THEN /\ probe.route = Some("pipeline")
             /\ \E df \in PipelineResults : line.rows = Height(df) /\ line.cols = Width(df)
        ELSE /\ probe.route = Some("count_shape")
             /\ line.rows = Height(Input) /\ line.cols = Width(Input)

\* The N of the run: the one given, or 10.
GivenN == IF IsSome(run.n) THEN parse_usize(Unwrap(run.n)).v ELSE 10

\* C19: with no --limit and no --offset, head N prints exactly the first
\* min(N, R) rows and tail N exactly the last min(N, R) rows of the
\* transformed result of R rows, in its order; N is 10 when it is not given,
\* for head, tail and sample.
C19_HeadTail ==
  (/\ cli.command \in {"head", "tail", "sample"} /\ pc \in {"done", "failed"}
   /\ ~IsSome(cli.limit) /\ ~IsSome(cli.offset)) =>
    /\ DonePrinted
    /\ \E r \in Collect(apply_transformations(Lazy(Input), cli)) :
         LET R == Height(r)
             k == Min(GivenN, R)
         IN  /\ Printed.schema = r.schema
             /\ CASE cli.command = "head" -> Rows(Printed) = SubSeq(Rows(r), 1, k)
                  [] cli.command = "tail" -> Rows(Printed) = SubSeq(Rows(r), R - k + 1, R)
                  [] OTHER -> Height(Printed) = k

\* An integer or a decimal: an optional sign, then digits with at most one
\* point among them and at least one digit.
LooksDecimal(s) ==
  LET body == IF s # <<>> /\ s[1] \in {"+", "-"} THEN Tail(s) ELSE s
      pts  == {i \in DOMAIN body : body[i] = "."}
  IN  /\ \A i \in DOMAIN body : body[i] \in Digits \cup {"."}
      /\ Cardinality(pts) <= 1
      /\ Len(body) > Cardinality(pts)

\* The set-up of main has run and kept the split of the positional arguments.
SplitDone == cli.command \in {"head", "tail", "sample"} /\ run # NoRun

\* head or tail rejected the N it was given.
RejectedN ==
  /\ cli.command \in {"head", "tail"} /\ pc = "failed" /\ run = NoRun
  /\ Unwrap(err).err \in {"Invalid number for head", "Invalid number for tail"}

\* The split as stated: N is the first argument iff that is an integer or a
\* decimal.
C20_ParseN_AsStated ==
  /\ SplitDone =>
       IF LooksDecimal(cli.files[1])
       THEN run.n = Some(cli.files[1]) /\ run.file_paths = Tail(cli.files)
       ELSE run.n = None /\ run.file_paths = cli.files
  /\ RejectedN => LooksDecimal(cli.files[1])

\* C20: parse_n_and_files returns the first positional argument as N, as the
\* original string, with the remaining arguments as the files in their
\* order, if it parses as a 64-bit float (an integer, a decimal, an exponent
\* form, or inf, infinity, nan in any case, each with an optional sign);
\* otherwise N is absent and the files are all the arguments, unchanged.
C20_ParseN ==
  /\ SplitDone =>
       IF ~IsErr(parse_f64(cli.files[1]))
       THEN run.n = Some(cli.files[1]) /\ run.file_paths = Tail(cli.files)
       ELSE run.n = None /\ run.file_paths = cli.files
  /\ RejectedN => Unwrap(err).arg = cli.files[1] /\ ~IsErr(parse_f64(cli.files[1]))

\* sample 0.5 with two files after it: N is "0.5" as written and both files
\* were processed in their order.
C20_Witness ==
  /\ SplitDone /\ pc = "done"
  /\ cli.files = <<<<"0", ".", "5">>, FileB, FileA>>
  /\ run.n = Some(<<"0", ".", "5">>)
  /\ run.file_paths = <<FileB, FileA>>
  /\ [i \in DOMAIN log |-> log[i].path] = <<FileB, FileA>>

\* The predicate of the command line is one the engine's parser rejects.
FilterRejected == IsSome(cli.filter) /\ IsErr(sql_expr(Unwrap(cli.filter)))

\* The last file opened was read: it is on the disk in the encoding of its name.
LastFileRead ==
  /\ log # <<>>
  /\ ~IsErr(read_to_lazyframe(log[Len(log)].path, disk))

\* C21: a predicate the engine's parser rejects makes apply_transformations
\* fail with an error carrying the predicate string as given; no stage is
\* applied to the plan, and nothing is printed or written for the file.
C21_FilterError ==
  (FilterRejected /\ LastFileRead) =>
    /\ apply_transformations(read_to_lazyframe(log[Len(log)].path, disk), run.cli_with_limit)
         = ErrWith("Failed to parse filter", Unwrap(cli.filter))
    /\ pc = "failed"
    /\ err = Some(ErrWith("Failed to parse filter", Unwrap(cli.filter)))
    /\ Len(log) = 1
    /\ log[1].out = <<>> /\ log[1].file = None
    /\ probe.plan = <<>>
    /\ written = None
    /\ \A i \in DOMAIN stdout : stdout[i].kind \in {"header", "blank"}

\* cat of two files with a rejected predicate and other options: the run
\* stopped at the first file with the predicate in the error.
C21_Witness ==
  /\ cli.command = "cat" /\ cli.filter = Some("age >")
  /\ IsSome(cli.select) /\ IsSome(cli.limit) /\ IsSome(cli.output)
  /\ run.file_paths = <<FileA, FileB>>
  /\ pc = "failed"
  /\ Unwrap(err).arg = "age >"
  /\ Len(log) = 1 /\ written = None

\* A count: digits, with an optional plus sign.
ValidCount(s) ==
  LET body == IF s # <<>> /\ s[1] = "+" THEN Tail(s) ELSE s
  IN  body # <<>> /\ AllDigits(body)

\* A fraction: digits with one point among them and at least one digit, no
\* sign and no exponent.
ValidFraction(s) ==
  /\ \A i \in DOMAIN s : s[i] \in Digits \cup {"."}
  /\ Cardinality({i \in DOMAIN s : s[i] = "."}) = 1
  /\ Len(s) > 1

\* A valid N for the command: a count for head and tail, a count or a
\* fraction for sample.
ValidN(command, s) ==
  IF command = "sample" THEN ValidCount(s) \/ ValidFraction(s) ELSE ValidCount(s)

ParseErrors ==
  {"Invalid number for head", "Invalid number for tail", "Invalid number for sample",
   "Invalid fraction for sample"}

\* C22: an N of head, tail or sample that is not a valid number for the
\* command ends the run with a parse error carrying the argument, and no row
\* of any file is printed or written.
C22_InvalidN ==
  (/\ cli.command \in {"head", "tail", "sample"} /\ pc \in {"done", "failed"}
   /\ cli.files # <<>> /\ ~IsErr(parse_f64(cli.files[1]))
   /\ ~ValidN(cli.command, cli.files[1])) =>
    /\ pc = "failed"
    /\ Unwrap(err).err \in ParseErrors
    /\ Unwrap(err).arg = cli.files[1]
    /\ written = None
    /\ \A i \in DOMAIN stdout : stdout[i].kind \in {"header", "blank"}

\* The key of a row: the row, or its values in the scope columns.
KeyOn(row, scope) == IF scope = <<>> THEN row ELSE [c \in Range(scope) |-> row[c]]

\* The rows whose key is not in seen and not the key of an earlier row, in
\* their order.
RECURSIVE FirstOccurrences(_, _, _)
FirstOccurrences(rows, scope, seen) ==
  IF rows = <<>> THEN <<>>
  ELSE IF KeyOn(Head(rows), scope) \in seen
  THEN FirstOccurrences(Tail(rows), scope, seen)
  ELSE <<Head(rows)>>
         \o FirstOccurrences(Tail(rows), scope, seen \cup {KeyOn(Head(rows), scope)})

\* What the stages before the dedup may produce.
BeforeDedup ==
  Collect(apply_transformations(Lazy(Input), [cli EXCEPT !.unique = FALSE,
                                                          !.unique_on = None]))

\* The scope in force: the scope columns when given, else the whole row.
DedupScope == IF IsSome(cli.unique_on) THEN Unwrap(cli.unique_on) ELSE <<>>

\* C23: the dedup stage keeps for each distinct key (the whole row, or the
\* values of the scope columns) exactly the first row in the order of the
\* preceding stages and keeps the kept rows in that order; with both the flag
\* and a scope the scope is used.
C23_Dedup ==
  (/\ cli.command = "cat" /\ pc \in {"done", "failed"}
   /\ (cli.unique \/ IsSome(cli.unique_on))
   /\ ~IsSome(cli.limit) /\ ~IsSome(cli.offset)) =>
    /\ DonePrinted
    /\ \E r \in BeforeDedup :
         /\ Printed.schema = r.schema
         /\ Rows(Printed) = FirstOccurrences(Rows(r), DedupScope, {})

\* The flag and the scope "name" together on three rows, two of one name that
\* differ in age: the later of the two is gone, so the scope was used.
C23_Witness ==
  /\ DonePrinted /\ cli.command = "cat"
  /\ cli.unique /\ cli.unique_on = Some(<<"name">>) /\ cli.sort_keys = <<>>
  /\ ~IsSome(cli.filter)
  /\ Height(Input) = 3 /\ Height(Printed) = 2
  /\ Rows(Input)[1].name = Rows(Input)[3].name
  /\ Rows(Input)[1].age # Rows(Input)[3].age
  /\ Rows(Printed) = SubSeq(Rows(Input), 1, 2)

\* The value a key is compared by: a string in lower case when the sort
\* folds case, any other value as it is.
ComparedBy(v) ==
  IF cli.ignore_case /\ v.t = "str" THEN StrV(ToLowercase(v.s)) ELSE v

\* v comes strictly before w in ascending order.
ValueBefore(v, w) == IF v.t = "int" THEN v.i < w.i ELSE Ord(v.s) < Ord(w.s)

\* Row r1 must come strictly before row r2: at the first key on which they
\* differ, r1 is before r2 in the direction of the sort.
RowBefore(r1, r2) ==
  \E k \in DOMAIN cli.sort_keys :
    /\ \A m \in 1..(k - 1) :
         ComparedBy(r1[cli.sort_keys[m]]) = ComparedBy(r2[cli.sort_keys[m]])
    /\ IF cli.reverse
       THEN ValueBefore(ComparedBy(r2[cli.sort_keys[k]]), ComparedBy(r1[cli.sort_keys[k]]))
       ELSE ValueBefore(ComparedBy(r1[cli.sort_keys[k]]), ComparedBy(r2[cli.sort_keys[k]]))

\* C24: the sort stage orders the rows lexicographically by the keys in the
\* order given, the one descending flag applying to every key and, with case
\* folding, each key compared by its lower-cased value; it only reorders the
\* rows.
C24_Sort ==
  (/\ cli.command = "cat" /\ pc \in {"done", "failed"} /\ cli.sort_keys # <<>>
   /\ ~IsSome(cli.filter) /\ ~IsSome(cli.select) /\ ~IsSome(cli.drop)
   /\ ~cli.unique /\ ~IsSome(cli.unique_on)
   /\ ~IsSome(cli.limit) /\ ~IsSome(cli.offset)) =>
    /\ DonePrinted
    /\ Printed.schema = Input.schema
    /\ \E p \in Perms(Height(Input)) :
         Rows(Printed) = [i \in 1..Height(Input) |-> Rows(Input)[p[i]]]
    /\ \A i, j \in 1..Height(Printed) :
         i < j => ~RowBefore(Rows(Printed)[j], Rows(Printed)[i])

\* The check a line of lint belongs to: 0 for the header, 1 to 4 for the
\* null scan, the duplicate scan, the schema dump and the null-row extraction.
CheckOf(kind) ==
  CASE kind = "linting" -> 0
    [] kind \in {"nulls", "no_nulls"} -> 1
    [] kind \in {"duplicates", "no_duplicates"} -> 2
    [] kind = "schema" -> 3
    [] kind \in {"null_rows_title", "df"} -> 4

\* The file was read and collected: the checks of lint_data have started.
LintStarted ==
  cli.command = "lint" /\ pc \in {"done", "failed"} /\ LinesOf({"linting"}) # <<>>

\* C25: the four lint checks run in a fixed order, each behind its own gate:
\* the null scan always, the duplicate scan iff --unique or --unique-on is
\* given, the schema dump iff asked for, the null-row extraction iff asked
\* for, whatever the other checks found.
C25_LintGates ==
  /\ LintDone => LinesOf({"linting"}) # <<>>
  /\ LintStarted =>
       /\ \A i, j \in DOMAIN stdout :
            i < j => CheckOf(stdout[i].kind) <= CheckOf(stdout[j].kind)
       /\ Len(LinesOf({"linting"})) = 1
       /\ Len(LinesOf({"nulls", "no_nulls"})) >= 1
       /\ Len(LinesOf({"duplicates", "no_duplicates"})) =
            (IF cli.unique \/ IsSome(cli.unique_on) THEN 1 ELSE 0)
       /\ Len(LinesOf({"schema"})) = (IF cli.show_schema THEN 1 ELSE 0)
       /\ Len(LinesOf({"null_rows_title"})) = (IF cli.show_nulls THEN 1 ELSE 0)

\* The scope alone starts the duplicate scan, after a null scan that found
\* nulls and before the schema dump and the null-row extraction.
C25_Witness ==
  /\ LintDone
  /\ ~cli.unique /\ IsSome(cli.unique_on) /\ cli.show_schema /\ cli.show_nulls
  /\ [i \in DOMAIN stdout |-> CheckOf(stdout[i].kind)] = <<0, 1, 2, 3, 4, 4>>
  /\ stdout[2].kind = "nulls"

\* Nothing but the null scan runs when nothing else is asked for, also on a
\* table without nulls.
C25_WitnessBare ==
  /\ LintDone
  /\ [i \in DOMAIN stdout |-> stdout[i].kind] = <<"linting", "no_nulls">>

\* The command line names no input file: no positional argument, or for
\* head, tail and sample the N alone.
NoInputFile ==
  \/ cli.files = <<>>
  \/ cli.command \in {"head", "tail", "sample"} /\ cli.files \in {<<n>> : n \in OnlyNumerals}

\* C26: every command invoked without an input file, head, tail and sample
\* with N alone included, fails with the "requires at least one file" error;
\* no run finishes successfully having processed no file.
C26_NoFiles ==
  /\ (NoInputFile /\ pc # "start") =>
       /\ pc = "failed"
       /\ err = Some(ErrWith("command requires at least one file", cli.command))
  /\ pc = "done" => log # <<>>

\* The rows left after a non-negative offset, all rows without one.
RowsFrom(c, r) == IF IsSome(c.offset) THEN Max(r - Unwrap(c.offset), 0) ELSE r

\* C27: the conversion of the limit to the engine's row-index type does not
\* change the result: for every limit L, L >= 2^32 included, a table of R
\* rows gives min(L, R) rows with the limit alone and min(L, rows remaining
\* after the offset) rows with an offset.
C27_LimitWidth ==
  (/\ cli.command = "cat" /\ pc \in {"done", "failed"}
   /\ IsSome(cli.limit)
   /\ IsSome(cli.offset) => Unwrap(cli.offset) >= 0) =>
    /\ DonePrinted
    /\ Height(Printed) = WideMin(Unwrap(cli.limit), RowsFrom(cli, Height(Input)))

\* The report compute_stats gave after the run.
EagerReport == log[Len(log)].out[1].df

PlainResult(df) ==
  IF cli.command = "stats" THEN compute_stats_lazy(Lazy(df)) ELSE df

WritingRun ==
  /\ cli.command \in {"cat", "head", "tail", "sample", "stats"}
  /\ IsSome(cli.output)
  /\ pc = "done"

\* C29: with several input files and one output file, each file's result is
\* written to the same output path and replaces what the previous file wrote:
\* after a successful run the output file holds only the last input file's
\* result, for cat, head, tail, sample and stats alike.
C29_LastFileWins ==
  WritingRun =>
    /\ Len(log) = Len(cli.files)
    /\ \A k \in DOMAIN log :
         /\ IsSome(log[k].file)
         /\ Unwrap(log[k].file).path = Unwrap(cli.output)
         /\ Unwrap(log[k].file).df = PlainResult(disk[cli.files[k]].df)
    /\ written = log[Len(log)].file

\* a.csv then b.csv written to o.csv: the file holds the rows of b.csv.
C29_Witness ==
  /\ WritingRun
  /\ cli.command = "cat"
  /\ cli.files = <<FileA, FileB>>
  /\ cli.output = Some(FileOut)
  /\ Height(disk[FileA].df) = MaxRows
  /\ Unwrap(log[1].file).df = disk[FileA].df
  /\ Unwrap(written).df = disk[FileB].df
  /\ disk[FileA].df # disk[FileB].df

\* The N written on the command line before the file, 10 without one.
WrittenN ==
  CASE cli.files[1] = <<"1">> -> 1
    [] cli.files[1] = <<"2">> -> 2
    [] OTHER -> 10

\* The options the claim gives the run: N fills in the limit of head and the
\* offset of tail when the option is absent, and changes nothing else.
FilledIn ==
  [cli EXCEPT
     !.limit  = IF cli.command = "head" /\ ~IsSome(cli.limit)
                THEN Some(FromInt(WrittenN)) ELSE cli.limit,
     !.offset = IF cli.command = "tail" /\ ~IsSome(cli.offset)
                THEN Some(-WrittenN) ELSE cli.offset]

\* C30: the N of head and tail only fills in a missing option: head N sets
\* the limit to N only without --limit, tail N sets the offset to -N only
\* without --offset; an explicit --limit (head) or --offset (tail) wins and N
\* is ignored, and the other option of the pair is taken unchanged; the rows
\* printed are those cat prints with the resulting limit and offset.
C30_NFillsIn ==
  (cli.command \in {"head", "tail"} /\ pc \in {"loop", "done", "failed"}) =>
    /\ pc # "failed"
    /\ run.cli_with_limit = FilledIn
    /\ pc = "done" =>
         /\ DonePrinted
         /\ Printed \in Collect(apply_transformations(
                                  Lazy(Input), [FilledIn EXCEPT !.command = "cat"]))

\* head 1 --limit 2 prints two rows; the N is ignored.
C30_Witness ==
  /\ DonePrinted
  /\ cli.command = "head"
  /\ cli.files = <<<<"1">>, FileA>>
  /\ cli.limit = Some(FromInt(2))
  /\ ~IsSome(cli.offset)
  /\ Height(Input) = MaxRows
  /\ Height(Printed) = 2

====
